---- MODULE Spec2Model ----
(***************************************************************************)
(* A model of the FTP client of package ftpclient (FtpServerConn and       *)
(* FtpDataConn): one Session driven by one caller against a server whose   *)
(* replies, and a network whose failures, are chosen nondeterministically. *)
(*                                                                         *)
(* One action is one blocking step of an exported method: a SendCmd        *)
(* exchange (log, write, read one reply) together with the code around it  *)
(* up to the next exchange.  A method with several exchanges (Login,       *)
(* transferCmd) is a chain of steps linked by pc.                          *)
(*                                                                         *)
(* wire and log are the trace of the call in progress: every control or    *)
(* data event the method performed, in order, and every message it handed  *)
(* to the logger.  A method that has returned stays at pc = "done", with   *)
(* its trace and its result in ret, until the caller takes the result      *)
(* (Return); between calls pc = "idle" and the trace is empty.             *)
(***************************************************************************)
EXTENDS Integers, Sequences, FiniteSets, TLC

\* ------------------------------------------------- FTP status codes (RFC 959)
DataConnectionAlreadyOpen == 125
FileStatusOK == 150
CommandOkay == 200
ServiceReadyForNewUser == 220
ClosingDataConnection == 226
EnteringPassive == 227
EnteringExtendedPassive == 229
UserLoggedIn == 230
AuthOkay == 234
ActionOK == 250
UserNameOK == 331
SystemStatus == 211
FileStatus == 213
SystemType == 215
DataConnectionOpen == 225
PathCreated == 257
ActionPending == 350
\* expectCode of SendCmd when the caller checks the code itself
AnyCode == -1

\* The reply codes the modelled server may send: every code some method
\* expects, and three (425, 530, 550) that no method accepts.
Codes ==
    { DataConnectionAlreadyOpen, FileStatusOK, CommandOkay, ServiceReadyForNewUser,
      ClosingDataConnection, EnteringPassive, EnteringExtendedPassive, UserLoggedIn,
      AuthOkay, ActionOK, UserNameOK, SystemStatus, FileStatus, SystemType,
      DataConnectionOpen, PathCreated, ActionPending, 425, 530, 550 }

\* ------------------------------------------------------- reply messages
\* A reply message is a sequence of tokens: a decimal number or another
\* character.  These messages drive every branch of the reply decoders: a
\* 227 payload, a 229 payload, a 257 path in quotes, a 257 message with one
\* quote, a 213 size, and free text, which no decoder accepts.
Num(v) == [c |-> "#", n |-> v]
Sep(s) == [c |-> s, n |-> 0]
IsNum(t) == t.c = "#"
IsSep(t, s) == t.c = s

NoMsg == << >>
MsgPasv ==
    << Sep("("), Num(10), Sep(","), Num(0), Sep(","), Num(0), Sep(","), Num(1),
       Sep(","), Num(7), Sep(","), Num(138), Sep(")") >>
MsgEpsv == << Sep("("), Sep("|"), Sep("|"), Sep("|"), Num(51000), Sep("|"), Sep(")") >>
MsgText == << Sep("t") >>
QUOTE == "\""
MsgPath == << Sep(QUOTE), Sep("/"), Sep("a"), Sep(QUOTE), Sep(" "), Sep("t") >>
MsgOneQuote == << Sep("t"), Sep(QUOTE), Sep("a") >>
MsgSize == << Num(1234) >>
\* A size after a tab, as in the reply "213 <TAB>1234".
MsgSizeTab == << Sep("\t"), Num(1234) >>
\* A size before a line feed and a no-break space, as at the end of a reply
\* of several lines.
MsgSizeLines == << Num(1234), Sep("\n"), Sep("U+00A0") >>
Msgs == { MsgPasv, MsgEpsv, MsgPath, MsgOneQuote, MsgSize, MsgSizeTab, MsgSizeLines, MsgText }

\* unicode.IsSpace: the white space of Go's strings package.  A character
\* that has no escape in a string is named by its code point.
SpaceRunes ==
    { " ", "\t", "\n", "\r", "\f", "U+000B", "U+0085", "U+00A0", "U+1680", "U+2000",
      "U+2001", "U+2002", "U+2003", "U+2004", "U+2005", "U+2006", "U+2007", "U+2008",
      "U+2009", "U+200A", "U+2028", "U+2029", "U+202F", "U+205F", "U+3000" }
\* The messages the modelled server sends with a code: a payload with the
\* code that announces it, or free text.
MsgsOf(code) ==
    IF code = EnteringPassive THEN { MsgPasv, MsgText }
    ELSE IF code = EnteringExtendedPassive THEN { MsgEpsv, MsgText }
    ELSE IF code = PathCreated THEN { MsgPath, MsgOneQuote, MsgText }
    ELSE IF code = FileStatus THEN { MsgSize, MsgSizeTab, MsgSizeLines, MsgText }
    ELSE { MsgText }

\* -------------------------------------------------------- caller's inputs
Users == { "anonymous" }
Passwords == { "pwA", "pwB" }
\* The password of the second run of a pair of runs that differ in it only.
TwinPw(p) == IF p = "pwA" THEN "pwB" ELSE "pwA"

VARIABLES
    tlsConfig,    \* Config.tlsConfig # nil
    tlsImplicit,  \* Config.tlsImplicit
    ipv4,         \* the control connection's hosts parse as IPv4
    passive,      \* FtpServerConn.passive
    ctl,          \* FtpServerConn.textprotoConn: "none", "open", "closed"
    ctlTLS,       \* FtpServerConn.conn is a *tls.Conn
    hs,           \* its handshake: "na", "pending" (runs in the next write), "done"
    pc,           \* position of the call: "idle", a step of a method, "done"
    op,           \* the method called
    callPw,       \* Login's password argument while Login runs
    wire,         \* events of the call, in order
    log,          \* messages the call handed to the logger
    logTwin,      \* the same, in the run that differs in the password only
    ret,          \* what the call returned
    unread,       \* a command was written and its reply has not been read
    wroteUnread,  \* the call wrote a command while unread held
    finalOwed,    \* a transfer was accepted and its final reply has not been read
    broken,       \* a read or write of the control socket failed
    data,         \* the FtpDataConn handed to the caller
    sock,         \* transferCmd's local conn (passive mode)
    lst,          \* transferCmd's local listener (active mode): "none", "open", "closed"
    finalReads,   \* reads of the final reply since data was handed out
    pin,          \* the argument of a decoder or parser applied on its own
    pout,         \* its result, NoOut until it is applied
    task,         \* startListen's goroutine: "none", "listen", "send", "end"
    taskListener, \* its local listener: "unset", "nil", "open"
    mkPc,         \* makePort: "idle", "start", "recv", "announce", "done"
    mkListener,   \* makePort's local listener: "unset", "nil", "open"
    sends,        \* values sent on the channel listening
    deadline,     \* per connection and direction, what the deadline was set for
    tlsState,     \* per connection: "none", "raw", "pending", "done", "closed"
    lastIO,       \* the reads and writes of the last method, in order
    ctlLayers,    \* the TLS wrappers around the control socket, one in another
    thread,       \* two Sessions: where the thread of each is in its calls
    socket,       \* two Sessions: per control socket, who wrote and read what
    seen,         \* two Sessions: per Session, its commands and replies
    patterns,     \* the package's compiled patterns for 227 and 229
    parserTable,  \* the package's formatParsers, as a call of parse finds it
    fcall         \* RetrFile or StorFile on its own: place, defers, trace, result

sessionVars ==
    << tlsConfig, tlsImplicit, ipv4, passive, ctl, ctlTLS, hs, pc, op, callPw,
       wire, log, logTwin, ret, unread, wroteUnread, finalOwed, broken, data,
       sock, lst, finalReads >>

\* The argument and the result of a function applied outside any Session.
pureVars == << pin, pout >>

\* makePort and the goroutine of startListen.
listenVars == << task, taskListener, mkPc, mkListener, sends >>

\* The state of the parts modelled apart from the Session's calls.
\* The sockets under the I/O methods: deadlines, TLS wrappers, I/O done.
ioVars == << deadline, tlsState, lastIO, ctlLayers >>

\* Two Sessions of one program and what the package holds for all its
\* callers: the compiled patterns and the list of the listing parsers.
twoVars == << thread, socket, seen, patterns, parserTable >>

\* One call of RetrFile or StorFile, statement by statement.
fileVars == << fcall >>

sideVars == << listenVars, ioVars, twoVars, fileVars >>

vars == << sessionVars, pureVars, sideVars >>

\* What a call reads and leaves as it is: the two fields of the Config, which
\* WithTLSConfig and WithTLSImplicit set between calls, and the address
\* family of the control connection.
cfgVars == << tlsConfig, tlsImplicit, ipv4 >>

\* ---------------------------------------------------------------- records
\* An event of the trace: e is its kind, verb the command written, code and
\* msg the reply read, tls whether it went through a TLS wrapper.
Ev(e, verb, code, tls) ==
    [e |-> e, verb |-> verb, code |-> code, msg |-> NoMsg, tls |-> tls]
EvReply(code, msg, tls) ==
    [e |-> "R", verb |-> "", code |-> code, msg |-> msg, tls |-> tls]

\* A command as SendCmd gets it.  lead is the first word of the format
\* string when that word is written out in the format, and "" when the
\* format starts with a verb (%s); verb and arg are the first word and the
\* rest of the formatted line.  Every method of the package writes the
\* command's name out in its format.
Command(verb, arg) == [lead |-> verb, verb |-> verb, arg |-> arg]

\* The verbs a format holds as words of their own: %s and %d.
IsVerb(word) == word \in { "%s", "%d" }

\* The number of verbs among the first i words of a format.
VerbsUpTo(format, i) == Cardinality({ k \in 1..i : IsVerb(format[k]) })

\* fmt's output for a verb and its operand, a string: %s prints it, %d has
\* no way to print a string and says so.
Verb(word, arg) == IF word = "%s" THEN arg ELSE "%!d(string=" \o arg \o ")"

\* fmt's output for a verb that no operand is left for.
Missing(word) == IF word = "%s" THEN "%!s(MISSING)" ELSE "%!d(MISSING)"

\* fmt's list of the operands that no verb took.
RECURSIVE ExtraArgs(_)
ExtraArgs(args) ==
    "string=" \o Head(args) \o (IF Len(args) = 1 THEN "" ELSE ", " \o ExtraArgs(Tail(args)))

\* The words of a line, one space between two of them.
RECURSIVE JoinWords(_)
JoinWords(words) ==
    IF words = << >> THEN ""
    ELSE IF Len(words) = 1 THEN words[1]
    ELSE words[1] \o " " \o JoinWords(Tail(words))

\* The words of the formatted line before the operands left over: every
\* verb takes the next operand, and a verb that finds none is reported.
SprintfWords(format, args) ==
    [i \in 1..Len(format) |->
        IF ~IsVerb(format[i]) THEN format[i]
        ELSE IF VerbsUpTo(format, i) <= Len(args)
             THEN Verb(format[i], args[VerbsUpTo(format, i)])
             ELSE Missing(format[i])]

\* fmt.Sprintf for a format of words, each written out or a verb, and
\* operands that are strings: the words of the line it makes.  The operands
\* that no verb took follow the last word as %!(EXTRA ...), with no space.
Sprintf(format, args) ==
    LET used == VerbsUpTo(format, Len(format))
    IN  IF used >= Len(args) THEN SprintfWords(format, args)
        ELSE IF format = << >>
             THEN << "%!(EXTRA " \o ExtraArgs(args) \o ")" >>
             ELSE [SprintfWords(format, args) EXCEPT
                      ![Len(format)] = @ \o "%!(EXTRA "
                                          \o ExtraArgs(SubSeq(args, used + 1, Len(args))) \o ")"]

\* The command SendCmd makes of a caller's format and arguments: the first
\* word of the line and all that follows it.
FormattedLine(format, words) ==
    [lead |-> IF format = << >> \/ IsVerb(Head(format)) THEN "" ELSE Head(format),
     verb |-> IF words = << >> THEN "" ELSE words[1],
     arg |-> IF words = << >> THEN "" ELSE JoinWords(Tail(words))]

Formatted(format, args) == FormattedLine(format, Sprintf(format, args))

LogCmd(verb, arg) == [k |-> "cmd", verb |-> verb, arg |-> arg, code |-> 0, msg |-> NoMsg]
LogReply(code, msg) == [k |-> "reply", verb |-> "", arg |-> "", code |-> code, msg |-> msg]

Result(kind, code, msg) == [kind |-> kind, code |-> code, msg |-> msg]
Nil == Result("nil", 0, NoMsg)
Pending == Result("pending", 0, NoMsg)

\* A data socket: st is "none", "open" or "closed"; tls is "raw", "client" or
\* "server" (the TLS wrapper around it); hs tells whether that wrapper's
\* handshake has run; host and port are what was dialed.
DataConn(st, tls, host, port) ==
    [st |-> st, tls |-> tls, hs |-> FALSE, host |-> host, port |-> port]
NoData == DataConn("none", "raw", << >>, 0)
\* The host of the control connection's peer, which is not decoded from a reply.
PeerHost == << >>

\* What the server and the network do in one exchange: the write fails, the
\* read fails, or a reply arrives.
Outcomes ==
    { [k |-> "wfail", code |-> 0, msg |-> NoMsg], [k |-> "rfail", code |-> 0, msg |-> NoMsg] }
    \cup UNION { [k : {"reply"}, code : {c}, msg : MsgsOf(c)] : c \in Codes }
ReadOutcomes == { o \in Outcomes : o.k # "wfail" }

\* ------------------------------------------------------------ Init
\* A function applied on its own: nothing yet, then its name and its result.
NoOut == [fn |-> "none"]
Applied(fn, r) == [fn |-> fn, r |-> r]

\* New(cfg): a Session with no connection, in active mode.
SessionInit ==
    /\ tlsConfig \in BOOLEAN
    /\ tlsImplicit \in BOOLEAN
    /\ ipv4 \in BOOLEAN
    /\ passive = FALSE
    /\ ctl = "none"
    /\ ctlTLS = FALSE
    /\ hs = "na"
    /\ pc = "idle"
    /\ op = ""
    /\ callPw = ""
    /\ wire = << >>
    /\ log = << >>
    /\ logTwin = << >>
    /\ ret = Nil
    /\ unread = FALSE
    /\ wroteUnread = FALSE
    /\ finalOwed = FALSE
    /\ broken = FALSE
    /\ data = NoData
    /\ sock = NoData
    /\ lst = "none"
    /\ finalReads = 0

\* No makePort is running.
ListenIdle ==
    /\ task = "none"
    /\ taskListener = "unset"
    /\ mkPc = "idle"
    /\ mkListener = "unset"
    /\ sends = 0

\* The connections of the I/O methods and the directions of their I/O.
Conns == { "ctl", "data" }
NoDeadlines == [c \in Conns |-> [r |-> "none", w |-> "none"]]

\* No connection is there.
IOIdle ==
    /\ deadline = NoDeadlines
    /\ tlsState = [c \in Conns |-> "none"]
    /\ lastIO = << >>
    /\ ctlLayers = 0

\* The two Sessions of a server-to-server transfer.
Sessions == { "source", "destination" }
Compiled == << "regexp227", "regexp229" >>
At(call, step) == [op |-> call, step |-> step]
NoSocket == [rcvd |-> << >>, taken |-> << >>, wdl |-> "none", rdl |-> "none"]

\* var formatParsers: the parsers of a listing line, in the order parse
\* calls them.
formatParsers == << "parseUnixFormat", "parseDosFormat" >>

\* No thread has started, and the package is as its declarations make it.
TwoIdle ==
    /\ thread = [s \in Sessions |-> At(1, "put")]
    /\ socket = [k \in Sessions |-> NoSocket]
    /\ seen = [s \in Sessions |-> << >>]
    /\ patterns = Compiled
    /\ parserTable = formatParsers

\* A call of RetrFile or StorFile that has not started: the method, the
\* place in it, the deferred calls, the data connection, the chunks copied,
\* the steps done on the data connection and the control channel, the result.
FileCall(method) ==
    [op |-> method, pc |-> "start", defers |-> << >>, data |-> "none", chunks |-> 0,
     trace |-> << >>, ret |-> "pending"]

\* No call of RetrFile or StorFile.
FileIdle == fcall = FileCall("")

SideIdle == ListenIdle /\ IOIdle /\ TwoIdle /\ FileIdle

Init ==
    /\ SessionInit
    /\ SideIdle
    /\ pin = << >>
    /\ pout = NoOut

\* ------------------------------------------------- the control channel
\* textproto's check of a reply code against expectCode: a match on the
\* first digit for an expectCode of one digit, on the first two for one of
\* two, on the whole code for one of three; no check for an expectCode that
\* is not in 1..999.
ExpectOK(expectCode, code) ==
    ~ \/ 1 <= expectCode /\ expectCode < 10 /\ code \div 100 # expectCode
      \/ 10 <= expectCode /\ expectCode < 100 /\ code \div 10 # expectCode
      \/ 100 <= expectCode /\ expectCode < 1000 /\ code # expectCode

\* putCmd: one write of a command line; tls says whether it goes through the
\* TLS wrapper.  A write through a wrapper whose handshake is pending runs
\* the handshake first, and fails when the handshake does.
putCmd(cmd, o, tls) ==
    IF o.k = "wfail"
    THEN [err |-> Result("transport", 0, NoMsg), ev |-> << Ev("Wfail", cmd.verb, 0, tls) >>]
    ELSE [err |-> Nil, ev |-> << Ev("W", cmd.verb, 0, tls) >>]

\* readResponse: one reply read and checked; it is logged only when it is
\* the expected one.
readResponse(expectCode, o, tls) ==
    IF o.k = "rfail"
    THEN [code |-> 0, msg |-> NoMsg, err |-> Result("transport", 0, NoMsg),
          ev |-> << Ev("Rfail", "", 0, tls) >>, lg |-> << >>, readok |-> FALSE]
    ELSE IF ~ExpectOK(expectCode, o.code)
    THEN [code |-> o.code, msg |-> o.msg, err |-> Result("protocol", o.code, o.msg),
          ev |-> << EvReply(o.code, o.msg, tls) >>, lg |-> << >>, readok |-> TRUE]
    ELSE [code |-> o.code, msg |-> o.msg, err |-> Nil,
          ev |-> << EvReply(o.code, o.msg, tls) >>,
          lg |-> << LogReply(o.code, o.msg) >>, readok |-> TRUE]

getResponse(expectCode, o, tls) == readResponse(expectCode, o, tls)

\* SendLog without the redaction: every command is logged as formatted.
SendLogVerbatim(cmd) == LogCmd(cmd.verb, cmd.arg)

\* strings.HasPrefix(format, "PASS"): the format starts with the four
\* letters, whatever follows them.
HasPrefixPASS(lead) == Len(lead) >= 4 /\ SubSeq(lead, 1, 4) = "PASS"

\* What SendCmd hands to the logger before it writes: "PASS ***" for a format
\* that starts with PASS, the formatted command otherwise.  The test is on
\* the format, not on the command: "PASSWD %s" is logged as "PASS ***", and
\* a PASS made by the format "%s %s" is logged as it is written.
SendLog(cmd) ==
    IF HasPrefixPASS(cmd.lead) THEN LogCmd("PASS", "***") ELSE LogCmd(cmd.verb, cmd.arg)

\* SendCmd without the read: it returns once the command is written.
SendCmdNoRead(expectCode, cmd, o, tls) ==
    LET w == putCmd(cmd, o, tls)
    IN  [code |-> 0, msg |-> NoMsg, err |-> w.err, ev |-> w.ev,
         lg |-> << SendLog(cmd) >>, wrote |-> w.err.kind = "nil", readok |-> FALSE]

\* SendCmd: log, write, and, when the write succeeded, read one reply.
SendCmd(expectCode, cmd, o, tls) ==
    LET w == putCmd(cmd, o, tls)
        r == getResponse(expectCode, o, tls)
    IN  IF w.err.kind # "nil"
        THEN [code |-> 0, msg |-> NoMsg, err |-> w.err, ev |-> w.ev,
              lg |-> << SendLog(cmd) >>, wrote |-> FALSE, readok |-> FALSE]
        ELSE [code |-> r.code, msg |-> r.msg, err |-> r.err, ev |-> w.ev \o r.ev,
              lg |-> << SendLog(cmd) >> \o r.lg, wrote |-> TRUE, readok |-> r.readok]

\* The effect of one exchange x on the control channel's bookkeeping.
Channel(x) ==
    /\ unread' = IF x.wrote THEN ~x.readok ELSE unread
    /\ wroteUnread' = (wroteUnread \/ (x.wrote /\ unread))
    /\ broken' = (broken \/ x.err.kind = "transport")

\* The handshake of the control TLS wrapper runs in the first write through it.
HsAfter(x) == IF hs = "pending" /\ x.wrote THEN "done" ELSE hs

\* ------------------------------------------------------ the caller
\* A new call starts between calls, on a dialed Session; after a transport
\* error only Quit is called, and while a data connection is open only its
\* own methods are.
MayCall ==
    /\ pc = "idle"
    /\ ctl = "open"
    /\ ~broken
    /\ data.st # "open"

\* The caller takes the result of the call that returned; the locals of the
\* call and a closed data connection are gone.
Return ==
    /\ pc = "done"
    /\ pc' = "idle"
    /\ op' = ""
    /\ wire' = << >>
    /\ log' = << >>
    /\ logTwin' = << >>
    /\ ret' = Nil
    /\ wroteUnread' = FALSE
    /\ sock' = NoData
    /\ lst' = "none"
    /\ data' = IF data.st = "closed" THEN NoData ELSE data
    /\ finalReads' = 0
    /\ UNCHANGED << cfgVars, pureVars, sideVars, passive, ctl, ctlTLS, hs, callPw, unread, finalOwed, broken >>

\* ------------------------------------------------------ DialTimeout
\* Dial (with the TLS handshake when TLS is implicit), then read the
\* greeting.
\* A greeting check that takes any reply for the greeting.
GreetingAny == AnyCode

GreetingExpect == ServiceReadyForNewUser

DialTimeout(dialok, o) ==
    LET tls == tlsConfig /\ tlsImplicit
        r == getResponse(GreetingExpect, o, tls)
    IN  /\ pc = "idle"
        /\ ctl = "none"
        /\ op' = "DialTimeout"
        /\ pc' = "done"
        /\ log' = IF dialok THEN r.lg ELSE << >>
        /\ logTwin' = log'
        /\ IF ~dialok
           THEN /\ wire' = << Ev("dialfail", "", 0, tls) >>
                /\ ret' = Result("dial", 0, NoMsg)
                /\ UNCHANGED << ctl, ctlTLS, hs, broken >>
           ELSE /\ wire' = << Ev("dial", "", 0, tls) >> \o r.ev
                /\ ctl' = "open"
                /\ ctlTLS' = tls
                /\ hs' = IF tls THEN "done" ELSE "na"
                /\ broken' = (r.err.kind = "transport")
                /\ ret' = r.err
        /\ UNCHANGED << cfgVars, pureVars, sideVars, passive, callPw, unread, wroteUnread, finalOwed, data,
                        sock, lst, finalReads >>

\* ------------------------------------------------------ SetPasv
SetPasv(ispassive) ==
    /\ MayCall
    /\ op' = "SetPasv"
    /\ pc' = "done"
    /\ passive' = ispassive
    /\ UNCHANGED << cfgVars, pureVars, sideVars, ctl, ctlTLS, hs, callPw, wire, log, logTwin, ret, unread,
                    wroteUnread, finalOwed, broken, data, sock, lst, finalReads >>

\* ------------------------------------------------------ Config
\* WithTLSConfig and WithTLSImplicit of the Config the Session embeds: the
\* caller sets the field between two calls, on a Session dialed or not,
\* with a data connection open or not; config tells whether the argument
\* of WithTLSConfig is not nil.
WithTLSConfig(config) ==
    /\ pc = "idle"
    /\ tlsConfig' = config
    /\ UNCHANGED << pureVars, sideVars, tlsImplicit, ipv4, passive, ctl, ctlTLS, hs, pc, op, callPw,
                    wire, log, logTwin, ret, unread, wroteUnread, finalOwed, broken, data, sock,
                    lst, finalReads >>

WithTLSImplicit(implicit) ==
    /\ pc = "idle"
    /\ tlsImplicit' = implicit
    /\ UNCHANGED << pureVars, sideVars, tlsConfig, ipv4, passive, ctl, ctlTLS, hs, pc, op, callPw,
                    wire, log, logTwin, ret, unread, wroteUnread, finalOwed, broken, data, sock,
                    lst, finalReads >>

\* ------------------------------------------------------ Quit
\* QUIT, whatever becomes of it, then the close of the control connection.
\* A Quit that returns the error of QUIT when there is one.
QuitResultOfCmd(x, closeok) ==
    IF x.err.kind # "nil" THEN x.err
    ELSE IF closeok THEN Nil ELSE Result("close", 0, NoMsg)

QuitResult(x, closeok) == IF closeok THEN Nil ELSE Result("close", 0, NoMsg)

Quit(o, closeok) ==
    LET x == SendCmd(AnyCode, Command("QUIT", ""), o, ctlTLS)
    IN  /\ pc = "idle"
        /\ ctl = "open"
        /\ data.st # "open"
        /\ op' = "Quit"
        /\ pc' = "done"
        /\ wire' = x.ev \o << Ev(IF closeok THEN "cclose" ELSE "cclosefail", "", 0, ctlTLS) >>
        /\ log' = x.lg
        /\ logTwin' = x.lg
        /\ ctl' = "closed"
        /\ ret' = QuitResult(x, closeok)
        /\ Channel(x)
        /\ hs' = HsAfter(x)
        /\ UNCHANGED << cfgVars, pureVars, sideVars, passive, ctlTLS, callPw, finalOwed, data, sock, lst,
                        finalReads >>

\* ------------------------------------------------------ Login
\* A Login that upgrades whenever there is a TLS policy, implicit or not.
ExplicitTLSAlways == tlsConfig

\* c.tlsConfig != nil && c.tlsImplicit == false: Login starts with the upgrade.
ExplicitTLS == tlsConfig /\ ~tlsImplicit

\* A Login that goes on after AUTH TLS on the connection as it was,
\* without the TLS client wrapper.
LoginAuthNoWrap(pw, o) ==
    LET x == SendCmd(AuthOkay, Command("AUTH", "TLS"), o, ctlTLS)
    IN  /\ MayCall
        /\ ExplicitTLS
        /\ op' = "Login"
        /\ log' = x.lg
        /\ logTwin' = x.lg
        /\ Channel(x)
        /\ hs' = HsAfter(x)
        /\ wire' = IF x.err.kind # "nil" THEN x.ev ELSE x.ev \o << Ev("wrap", "", 0, TRUE) >>
        /\ IF x.err.kind # "nil"
           THEN /\ ret' = x.err
                /\ pc' = "done"
                /\ UNCHANGED << callPw, ctlTLS >>
           ELSE /\ pc' = "login_pbsz"
                /\ callPw' = pw
                /\ ret' = Pending
                /\ UNCHANGED ctlTLS
        /\ UNCHANGED << cfgVars, pureVars, sideVars, passive, ctl, finalOwed, data, sock, lst, finalReads >>

\* The explicit TLS upgrade: AUTH TLS (234), then the control connection is
\* replaced by the TLS client wrapper.
LoginAuth(pw, o) ==
    LET x == SendCmd(AuthOkay, Command("AUTH", "TLS"), o, ctlTLS)
    IN  /\ MayCall
        /\ ExplicitTLS
        /\ op' = "Login"
        /\ log' = x.lg
        /\ logTwin' = x.lg
        /\ Channel(x)
        /\ IF x.err.kind # "nil"
           THEN /\ wire' = x.ev
                /\ ret' = x.err
                /\ pc' = "done"
                /\ hs' = HsAfter(x)
                /\ UNCHANGED << callPw, ctlTLS >>
           ELSE /\ wire' = x.ev \o << Ev("wrap", "", 0, TRUE) >>
                /\ ctlTLS' = TRUE
                /\ hs' = "pending"
                /\ pc' = "login_pbsz"
                /\ callPw' = pw
                /\ ret' = Pending
        /\ UNCHANGED << cfgVars, pureVars, sideVars, passive, ctl, finalOwed, data, sock, lst, finalReads >>

\* PBSZ 0 (200), PROT P (200): the two exchanges after the wrap.
LoginTLSStep(at, verb, arg, next, o) ==
    LET x == SendCmd(CommandOkay, Command(verb, arg), o, ctlTLS)
    IN  /\ pc = at
        /\ wire' = wire \o x.ev
        /\ log' = log \o x.lg
        /\ logTwin' = logTwin \o x.lg
        /\ Channel(x)
        /\ hs' = HsAfter(x)
        /\ IF x.err.kind # "nil"
           THEN /\ ret' = x.err
                /\ pc' = "done"
                /\ callPw' = ""
           ELSE /\ pc' = next
                /\ UNCHANGED << ret, callPw >>
        /\ UNCHANGED << cfgVars, pureVars, sideVars, passive, ctl, ctlTLS, op, finalOwed, data, sock, lst,
                        finalReads >>

\* A Login that goes from PBSZ to USER, without PROT.
LoginPbszNoProt(o) == LoginTLSStep("login_pbsz", "PBSZ", "0", "login_user", o)

LoginPbsz(o) == LoginTLSStep("login_pbsz", "PBSZ", "0", "login_prot", o)

LoginProt(o) == LoginTLSStep("login_prot", "PROT", "P", "login_user", o)

\* USER: any reply is read; 331 leads to PASS, any other reply is returned
\* as an error made of its message.
\* A Login that sends PASS after a 230 reply to USER as well.
NeedPasswordAlso230(code) == code = UserNameOK \/ code = UserLoggedIn

NeedPassword(code) == code = UserNameOK

LoginUser(user, pw, o) ==
    LET x == SendCmd(AnyCode, Command("USER", user), o, ctlTLS)
    IN  /\ \/ MayCall /\ ~ExplicitTLS
           \/ pc = "login_user" /\ pw = callPw
        /\ op' = "Login"
        /\ wire' = wire \o x.ev
        /\ log' = log \o x.lg
        /\ logTwin' = logTwin \o x.lg
        /\ Channel(x)
        /\ hs' = HsAfter(x)
        /\ IF x.err.kind # "nil"
           THEN /\ ret' = x.err
                /\ pc' = "done"
                /\ callPw' = ""
           ELSE IF NeedPassword(x.code)
           THEN /\ ret' = Pending
                /\ pc' = "login_pass"
                /\ callPw' = pw
           ELSE /\ ret' = Result("message", 0, x.msg)
                /\ pc' = "done"
                /\ callPw' = ""
        /\ UNCHANGED << cfgVars, pureVars, sideVars, passive, ctl, ctlTLS, finalOwed, data, sock, lst,
                        finalReads >>

\* PASS (230).  The twin run sends the other password and gets the same
\* replies.
LoginPass(o) ==
    LET x == SendCmd(UserLoggedIn, Command("PASS", callPw), o, ctlTLS)
        xt == SendCmd(UserLoggedIn, Command("PASS", TwinPw(callPw)), o, ctlTLS)
    IN  /\ pc = "login_pass"
        /\ wire' = wire \o x.ev
        /\ log' = log \o x.lg
        /\ logTwin' = logTwin \o xt.lg
        /\ Channel(x)
        /\ hs' = HsAfter(x)
        /\ ret' = x.err
        /\ pc' = "done"
        /\ callPw' = ""
        /\ UNCHANGED << cfgVars, pureVars, sideVars, passive, ctl, ctlTLS, op, finalOwed, data, sock, lst,
                        finalReads >>

\* ------------------------------------------------------ reply decoders
\* Whether pat matches msg at place i.  pat is a sequence of "n" (a decimal
\* number) and separator characters.
MatchAt(msg, pat, i) ==
    /\ i + Len(pat) - 1 <= Len(msg)
    /\ \A k \in 1..Len(pat) :
          IF pat[k] = "n" THEN IsNum(msg[i + k - 1]) ELSE IsSep(msg[i + k - 1], pat[k])

\* The leftmost place of msg where pat matches; 0 when there is none.
FindMatch(msg, pat) ==
    LET at == { i \in 1..Len(msg) : MatchAt(msg, pat, i) }
    IN  IF at = {} THEN 0 ELSE CHOOSE i \in at : \A j \in at : i <= j

regexp227 == << "n", ",", "n", ",", "n", ",", "n", ",", "n", ",", "n" >>
regexp229 == << "|", "|", "|", "n", "|" >>

\* A decoder that adds the two port numbers instead of shifting the first.
parse227PortSum(msg) ==
    LET i == FindMatch(msg, regexp227)
    IN  IF i = 0
        THEN [ok |-> FALSE, host |-> << >>, port |-> 0]
        ELSE [ok |-> TRUE,
              host |-> << msg[i].n, msg[i + 2].n, msg[i + 4].n, msg[i + 6].n >>,
              port |-> msg[i + 8].n + msg[i + 10].n]

\* parse227: host h1.h2.h3.h4 and port (p1 << 8) + p2 of the first six
\* comma-separated numbers of the message.
parse227(msg) ==
    LET i == FindMatch(msg, regexp227)
    IN  IF i = 0
        THEN [ok |-> FALSE, host |-> << >>, port |-> 0]
        ELSE [ok |-> TRUE,
              host |-> << msg[i].n, msg[i + 2].n, msg[i + 4].n, msg[i + 6].n >>,
              port |-> msg[i + 8].n * 256 + msg[i + 10].n]

\* A decoder that takes any message for an EPSV payload.
parse229AnyMessage(msg) == [ok |-> TRUE, host |-> PeerHost, port |-> 0]

\* parse229: the port between "|||" and "|".
parse229(msg) ==
    LET i == FindMatch(msg, regexp229)
    IN  IF i = 0
        THEN [ok |-> FALSE, host |-> << >>, port |-> 0]
        ELSE [ok |-> TRUE, host |-> PeerHost, port |-> msg[i + 3].n]

\* parse257: the text between the first and the last double quote of the
\* message; an error when there is no quote.  With one quote only, first and
\* last are the same place and the slice msg[start+1 : end] is out of range:
\* the call panics.
parse257(msg) ==
    LET quotes == { i \in 1..Len(msg) : IsSep(msg[i], QUOTE) }
        start == CHOOSE i \in quotes : \A j \in quotes : i <= j
        end == CHOOSE i \in quotes : \A j \in quotes : j <= i
    IN  IF quotes = {}
        THEN [kind |-> "error", path |-> << >>]
        ELSE IF start + 1 > end
        THEN [kind |-> "panic", path |-> << >>]
        ELSE [kind |-> "ok", path |-> SubSeq(msg, start + 1, end - 1)]

\* strings.TrimSpace: the message without its leading and trailing white
\* space (unicode.IsSpace: tabs and line ends too, not the space only).
RECURSIVE TrimSpace(_)
TrimSpace(msg) ==
    IF msg = << >> THEN msg
    ELSE IF msg[1].c \in SpaceRunes THEN TrimSpace(Tail(msg))
    ELSE IF msg[Len(msg)].c \in SpaceRunes THEN TrimSpace(SubSeq(msg, 1, Len(msg) - 1))
    ELSE msg

\* strconv.Atoi: a decimal number, with a sign or without, and nothing else.
Atoi(msg) ==
    IF Len(msg) = 1 /\ IsNum(msg[1])
    THEN [ok |-> TRUE, n |-> msg[1].n]
    ELSE IF Len(msg) = 2 /\ IsSep(msg[1], "+") /\ IsNum(msg[2])
    THEN [ok |-> TRUE, n |-> msg[2].n]
    ELSE IF Len(msg) = 2 /\ IsSep(msg[1], "-") /\ IsNum(msg[2])
    THEN [ok |-> TRUE, n |-> 0 - msg[2].n]
    ELSE [ok |-> FALSE, n |-> 0]

\* ------------------------------------------------------ command methods
\* A table of expected codes that has 200 for CWD and checks no other command.
ExpectOfCwd200(verb) ==
    CASE verb \in { "NOOP", "TYPE", "CWD" } -> CommandOkay
      [] OTHER -> AnyCode

\* The methods that are one SendCmd: the code each hands to SendCmd
\* (AnyCode for Delete and Abort, which check the code themselves).
ExpectOf(verb) ==
    CASE verb = "NOOP" -> CommandOkay
      [] verb = "TYPE" -> CommandOkay
      [] verb = "CWD" -> ActionOK
      [] verb \in { "CDUP", "RMD", "RNTO" } -> ActionOK
      [] verb \in { "RNFR", "REST" } -> ActionPending
      [] verb \in { "OPTS", "PBSZ", "PROT", "PORT", "EPRT" } -> CommandOkay
      [] verb = "AUTH" -> AuthOkay
      [] verb \in { "PWD", "MKD" } -> PathCreated
      [] verb = "SIZE" -> FileStatus
      [] verb = "SYST" -> SystemType
      [] verb = "FEAT" -> SystemStatus
      [] verb = "REIN" -> ServiceReadyForNewUser
      [] verb = "PASV" -> EnteringPassive
      [] verb = "EPSV" -> EnteringExtendedPassive
      [] OTHER -> AnyCode

SimpleVerbs ==
    { "NOOP", "TYPE", "CWD", "CDUP", "RMD", "REST", "OPTS", "PBSZ", "PROT", "PORT", "EPRT",
      "AUTH", "PWD", "MKD", "SIZE", "SYST", "FEAT", "REIN", "PASV", "EPSV", "DELE", "ABOR" }

\* The codes Delete and Abort accept after SendCmd(-1).
AcceptedAfter(verb) ==
    CASE verb = "DELE" -> { ActionOK, CommandOkay }
      [] verb = "ABOR" -> { DataConnectionOpen, ClosingDataConnection }
      [] OTHER -> Codes

\* What the method returns after its exchange x: the error of SendCmd, the
\* error of its own check of the code (Delete, Abort), or the outcome of the
\* decoding of the message (Pwd, Mkd, Size, Pasv, Epsv).
CmdResult(verb, x) ==
    IF x.err.kind # "nil" THEN x.err
    ELSE IF x.code \notin AcceptedAfter(verb) THEN Result("protocol", x.code, x.msg)
    ELSE IF verb \in { "PWD", "MKD" }
    THEN CASE parse257(x.msg).kind = "ok" -> Nil
           [] parse257(x.msg).kind = "error" -> Result("parse", 0, x.msg)
           [] OTHER -> Result("panic", 0, NoMsg)
    ELSE IF verb = "SIZE"
    THEN IF Atoi(TrimSpace(x.msg)).ok THEN Nil ELSE Result("parse", 0, x.msg)
    ELSE IF verb = "PASV"
    THEN IF parse227(x.msg).ok THEN Nil ELSE Result("parse", 0, x.msg)
    ELSE IF verb = "EPSV"
    THEN IF parse229(x.msg).ok THEN Nil ELSE Result("parse", 0, x.msg)
    ELSE Nil

SimpleCmd(verb, o) ==
    LET x == SendCmd(ExpectOf(verb), Command(verb, ""), o, ctlTLS)
    IN  /\ MayCall
        /\ op' = verb
        /\ pc' = "done"
        /\ wire' = x.ev
        /\ log' = x.lg
        /\ logTwin' = x.lg
        /\ ret' = CmdResult(verb, x)
        /\ Channel(x)
        /\ hs' = HsAfter(x)
        /\ UNCHANGED << cfgVars, pureVars, sideVars, passive, ctl, ctlTLS, callPw, finalOwed, data, sock,
                        lst, finalReads >>

\* ------------------------------------------------------ SendCmd, GetResponse
\* The codes a caller of SendCmd or GetResponse asks for: none, a first
\* digit, two first digits, a whole code, and a number of four digits.
CallerCodes == { AnyCode, 2, 22, ClosingDataConnection, 1000 }

\* The formats and arguments of the caller's own commands: a format that
\* starts with the letters PASS and is no PASS command, a PASS command whose
\* name is an argument, a command without arguments, a command of three
\* words, a command whose format has a verb for a number and a verb more
\* than there are arguments, and a command given arguments its format has
\* no verb for.
CallerCommands ==
    { [format |-> << "PASSWD", "%s" >>, args |-> << "x" >>],
      [format |-> << "%s", "%s" >>, args |-> << "PASS", "pwA" >>],
      [format |-> << "NOOP" >>, args |-> << >>],
      [format |-> << "SITE", "%s", "%s" >>, args |-> << "CHMOD", "644" >>],
      [format |-> << "REST", "%d", "%s" >>, args |-> << "100" >>],
      [format |-> << "NOOP" >>, args |-> << "x", "y" >>] }

\* The line fmt makes of each of them.
CallerLines == [call \in CallerCommands |-> Formatted(call.format, call.args)]

\* SendCmd called by the user of the package, with a format, arguments and
\* an expected code of the caller's choice.
CallSendCmd(expectCode, call, o) ==
    LET x == SendCmd(expectCode, CallerLines[call], o, ctlTLS)
    IN  /\ MayCall
        /\ op' = "SendCmd"
        /\ pc' = "done"
        /\ wire' = x.ev
        /\ log' = x.lg
        /\ logTwin' = x.lg
        /\ ret' = x.err
        /\ Channel(x)
        /\ hs' = HsAfter(x)
        /\ UNCHANGED << cfgVars, pureVars, sideVars, passive, ctl, ctlTLS, callPw, finalOwed, data, sock,
                        lst, finalReads >>

\* GetResponse: one reply is read and checked, and no command is written.
\* The reply read is the final reply of a transfer when one is owed.
GetResponse(expectCode, o) ==
    LET r == readResponse(expectCode, o, ctlTLS)
    IN  /\ MayCall
        /\ op' = "GetResponse"
        /\ pc' = "done"
        /\ wire' = r.ev
        /\ log' = r.lg
        /\ logTwin' = r.lg
        /\ ret' = r.err
        /\ finalOwed' = (finalOwed /\ ~r.readok)
        /\ unread' = (unread /\ (finalOwed \/ ~r.readok))
        /\ broken' = (broken \/ r.err.kind = "transport")
        /\ UNCHANGED << cfgVars, pureVars, sideVars, passive, ctl, ctlTLS, hs, callPw, wroteUnread, data,
                        sock, lst, finalReads >>

\* ------------------------------------------------------ Retr, Stor
\* RETR or STOR written on the control connection with no data connection
\* of this Session (a transfer from server to server): any reply is read,
\* 125 and 150 are success, and the final reply is left to GetResponse.
\* A final reply that was owed before the call is owed after it as well.
RetrStor(method, verb, o) ==
    LET x == SendCmd(AnyCode, Command(verb, ""), o, ctlTLS)
        good == x.err.kind = "nil" /\ (x.code = DataConnectionAlreadyOpen \/ x.code = FileStatusOK)
    IN  /\ MayCall
        /\ op' = method
        /\ pc' = "done"
        /\ wire' = x.ev
        /\ log' = x.lg
        /\ logTwin' = x.lg
        /\ ret' = IF x.err.kind # "nil" THEN x.err
                  ELSE IF ~good THEN Result("protocol", x.code, x.msg)
                  ELSE Nil
        /\ finalOwed' = (finalOwed \/ good)
        /\ Channel(x)
        /\ hs' = HsAfter(x)
        /\ UNCHANGED << cfgVars, pureVars, sideVars, passive, ctl, ctlTLS, callPw, data, sock, lst,
                        finalReads >>

Retr(o) == RetrStor("Retr", "RETR", o)

Stor(o) == RetrStor("Stor", "STOR", o)

\* A Rename that goes on to RNTO whatever the reply to RNFR was, as long
\* as one was read.
RenameFromGoOn(o) ==
    LET x == SendCmd(ExpectOf("RNFR"), Command("RNFR", ""), o, ctlTLS)
    IN  /\ MayCall
        /\ op' = "Rename"
        /\ wire' = x.ev
        /\ log' = x.lg
        /\ logTwin' = x.lg
        /\ Channel(x)
        /\ hs' = HsAfter(x)
        /\ IF ~x.readok
           THEN ret' = x.err /\ pc' = "done"
           ELSE ret' = Pending /\ pc' = "rn_to"
        /\ UNCHANGED << cfgVars, pureVars, sideVars, passive, ctl, ctlTLS, callPw, finalOwed, data, sock,
                        lst, finalReads >>

\* Rename: RNFR (350), then RNTO (250).
RenameFrom(o) ==
    LET x == SendCmd(ExpectOf("RNFR"), Command("RNFR", ""), o, ctlTLS)
    IN  /\ MayCall
        /\ op' = "Rename"
        /\ wire' = x.ev
        /\ log' = x.lg
        /\ logTwin' = x.lg
        /\ Channel(x)
        /\ hs' = HsAfter(x)
        /\ IF x.err.kind # "nil"
           THEN ret' = x.err /\ pc' = "done"
           ELSE ret' = Pending /\ pc' = "rn_to"
        /\ UNCHANGED << cfgVars, pureVars, sideVars, passive, ctl, ctlTLS, callPw, finalOwed, data, sock,
                        lst, finalReads >>

RenameTo(o) ==
    LET x == SendCmd(ExpectOf("RNTO"), Command("RNTO", ""), o, ctlTLS)
    IN  /\ pc = "rn_to"
        /\ wire' = wire \o x.ev
        /\ log' = log \o x.lg
        /\ logTwin' = logTwin \o x.lg
        /\ Channel(x)
        /\ hs' = HsAfter(x)
        /\ ret' = x.err
        /\ pc' = "done"
        /\ UNCHANGED << cfgVars, pureVars, sideVars, passive, ctl, ctlTLS, op, callPw, finalOwed, data, sock,
                        lst, finalReads >>

\* ------------------------------------------------------ transfer requests
\* The exported methods that return a data connection, with the command
\* each hands to transferCmd.
TransferOps == { "RetrRequest", "StorRequest", "ListRequest", "NlstRequest", "TransferRequest" }
\* The methods that run a whole transfer: transferCmd (or a request method),
\* the reading or writing of the data, and the deferred Close.
FileOps == { "Nlst", "List", "Dir", "RetrFile", "StorFile" }
TransferVerb(top) ==
    CASE top \in { "RetrRequest", "RetrFile" } -> "RETR"
      [] top \in { "StorRequest", "StorFile" } -> "STOR"
      [] top \in { "ListRequest", "List", "Dir" } -> "LIST"
      [] top \in { "NlstRequest", "Nlst" } -> "NLST"
      [] OTHER -> "MLSD"
TransferVerbs == { TransferVerb(top) : top \in TransferOps }

\* makePasv and makePort: the address command of a transfer, by the address
\* family of the control connection; transferCmd picks one by the mode.
\* A makePasv that sends EPSV to an IPv4 peer and PASV to any other.
makePasvVerbByOtherFamily == IF ipv4 THEN "EPSV" ELSE "PASV"
makePasvVerb == IF ipv4 THEN "PASV" ELSE "EPSV"
makePortVerb == IF ipv4 THEN "PORT" ELSE "EPRT"
\* The address command of the other mode.
NegotiationVerbSwapped == IF passive THEN makePortVerb ELSE makePasvVerb
NegotiationVerb == IF passive THEN makePasvVerb ELSE makePortVerb

\* A wrapper chosen by the state of the control connection instead of the
\* configuration.
DataWrapByControl(role) == IF ctlTLS THEN role ELSE "raw"

\* The wrapper transferCmd puts around a data socket.
DataWrap(role) == IF tlsConfig THEN role ELSE "raw"

\* Passive mode, up to the transfer command: PASV (227) or EPSV (229), the
\* decoding of the reply, the dial, the TLS client wrapper.
TransferPasv(top, o, dialok) ==
    LET verb == NegotiationVerb
        x == SendCmd(IF verb = "PASV" THEN EnteringPassive ELSE EnteringExtendedPassive,
                     Command(verb, ""), o, ctlTLS)
        a == IF verb = "PASV" THEN parse227(x.msg) ELSE parse229(x.msg)
        conn == DataConn("open", DataWrap("client"), a.host, a.port)
    IN  /\ MayCall
        /\ passive
        /\ op' = top
        /\ log' = x.lg
        /\ logTwin' = x.lg
        /\ Channel(x)
        /\ hs' = HsAfter(x)
        /\ IF x.err.kind # "nil"
           THEN /\ wire' = x.ev
                /\ ret' = x.err
                /\ pc' = "done"
                /\ UNCHANGED sock
           ELSE IF ~a.ok
           THEN /\ wire' = x.ev
                /\ ret' = Result("parse", 0, x.msg)
                /\ pc' = "done"
                /\ UNCHANGED sock
           ELSE IF ~dialok
           THEN /\ wire' = x.ev \o << Ev("ddialfail", "", 0, FALSE) >>
                /\ ret' = Result("dial", 0, NoMsg)
                /\ pc' = "done"
                /\ UNCHANGED sock
           ELSE /\ wire' = x.ev \o << Ev("ddial", "", 0, conn.tls # "raw") >>
                /\ ret' = Pending
                /\ pc' = "tc_cmd"
                /\ sock' = conn
        /\ UNCHANGED << cfgVars, pureVars, sideVars, passive, ctl, ctlTLS, callPw, finalOwed, data, lst,
                        finalReads >>

\* Active mode, up to the transfer command: the listener, then PORT or EPRT
\* (200).  When the command fails the listener is returned to nobody and
\* stays open.
TransferPort(top, o, listenok) ==
    LET x == SendCmd(CommandOkay, Command(NegotiationVerb, ""), o, ctlTLS)
    IN  /\ MayCall
        /\ ~passive
        /\ op' = top
        /\ IF ~listenok
           THEN /\ wire' = << Ev("listenfail", "", 0, FALSE) >>
                /\ ret' = Result("listener", 0, NoMsg)
                /\ pc' = "done"
                /\ UNCHANGED << log, logTwin, lst, unread, wroteUnread, broken, hs >>
           ELSE /\ wire' = << Ev("listen", "", 0, FALSE) >> \o x.ev
                /\ log' = x.lg
                /\ logTwin' = x.lg
                /\ Channel(x)
                /\ hs' = HsAfter(x)
                /\ lst' = "open"
                /\ IF x.err.kind # "nil"
                   THEN /\ ret' = x.err
                        /\ pc' = "done"
                   ELSE /\ ret' = Pending
                        /\ pc' = "tc_cmd"
        /\ UNCHANGED << cfgVars, pureVars, sideVars, passive, ctl, ctlTLS, callPw, finalOwed, data, sock,
                        finalReads >>

\* A transferCmd that leaves the listener as it is.
ListenerLeftOpen == "open"

\* defer listener.Close(): the listener once transferCmd has returned.
ListenerAtReturn == "closed"

\* A check of the transfer reply that takes 226 for 125.
TransferAccepted226(code) == code = ClosingDataConnection \/ code = FileStatusOK

\* The replies to a transfer command that let the transfer go on.
TransferAccepted(code) == code = DataConnectionAlreadyOpen \/ code = FileStatusOK

\* The transfer command: any reply is read, and only 125 and 150 let the
\* transfer go on.  In passive mode the dialed connection is then returned;
\* in active mode every return from here on closes the listener.
TransferCmd(o) ==
    LET x == SendCmd(AnyCode, Command(TransferVerb(op), ""), o, ctlTLS)
        good == x.err.kind = "nil" /\ TransferAccepted(x.code)
    IN  /\ pc = "tc_cmd"
        /\ log' = log \o x.lg
        /\ logTwin' = logTwin \o x.lg
        /\ Channel(x)
        /\ hs' = HsAfter(x)
        /\ finalOwed' = (finalOwed \/ good)
        /\ IF ~good
           THEN /\ ret' = IF x.err.kind # "nil" THEN x.err
                          ELSE Result("protocol", x.code, x.msg)
                /\ pc' = "done"
                /\ wire' = IF passive THEN wire \o x.ev
                           ELSE wire \o x.ev \o << Ev("lclose", "", 0, FALSE) >>
                /\ lst' = IF passive THEN lst ELSE ListenerAtReturn
                /\ UNCHANGED << data, sock >>
           ELSE IF passive
           THEN /\ wire' = wire \o x.ev
                /\ ret' = IF op \in FileOps THEN Pending ELSE Nil
                /\ pc' = IF op \in FileOps THEN "tf_body" ELSE "done"
                /\ data' = sock
                /\ sock' = NoData
                /\ UNCHANGED lst
           ELSE /\ wire' = wire \o x.ev
                /\ pc' = "tc_accept"
                /\ UNCHANGED << ret, data, sock, lst >>
        /\ UNCHANGED << cfgVars, pureVars, sideVars, passive, ctl, ctlTLS, op, callPw, finalReads >>

\* Active mode after 125 or 150: one Accept, the TLS server wrapper, and the
\* close of the listener on the way out.
TransferAccept(acceptok) ==
    LET conn == DataConn("open", DataWrap("server"), PeerHost, 0)
    IN  /\ pc = "tc_accept"
        /\ lst' = ListenerAtReturn
        /\ IF acceptok
           THEN /\ wire' = wire \o << Ev("accept", "", 0, conn.tls # "raw"),
                                      Ev("lclose", "", 0, FALSE) >>
                /\ ret' = IF op \in FileOps THEN Pending ELSE Nil
                /\ pc' = IF op \in FileOps THEN "tf_body" ELSE "done"
                /\ data' = conn
           ELSE /\ wire' = wire \o << Ev("acceptfail", "", 0, FALSE),
                                      Ev("lclose", "", 0, FALSE) >>
                /\ ret' = Result("accept", 0, NoMsg)
                /\ pc' = "done"
                /\ UNCHANGED data
        /\ UNCHANGED << cfgVars, pureVars, sideVars, passive, ctl, ctlTLS, hs, op, callPw, log, logTwin,
                        unread, wroteUnread, finalOwed, broken, sock, finalReads >>

\* A Close that returns the error of the close of the socket when there is one.
CloseResultCloseFirst(r, err) == IF err.kind # "nil" THEN err ELSE r.err
\* What Close returns: the error of the read of the final reply when there is
\* one, else the error of the close of the socket.
CloseResult(r, err) == IF r.err.kind # "nil" THEN r.err ELSE err

\* A Close that takes any reply for the final reply.
FinalExpectAny == AnyCode
\* The code Close expects of the final reply.
FinalExpect == ClosingDataConnection

\* A Close that reads the final reply before it closes the data socket.
CloseReadFirst(closeok, o) ==
    LET r == getResponse(FinalExpect, o, ctlTLS)
        err == IF closeok THEN Nil ELSE Result("dataclose", 0, NoMsg)
    IN  /\ pc = "idle"
        /\ ctl = "open"
        /\ data.st = "open"
        /\ op' = "Close"
        /\ pc' = "done"
        /\ wire' = r.ev \o
                   << Ev(IF closeok THEN "dclose" ELSE "dclosefail", "", 0, data.tls # "raw") >>
        /\ log' = r.lg
        /\ logTwin' = r.lg
        /\ data' = [data EXCEPT !.st = "closed"]
        /\ finalReads' = finalReads + 1
        /\ finalOwed' = (finalOwed /\ ~r.readok)
        /\ broken' = (broken \/ r.err.kind = "transport")
        /\ ret' = CloseResult(r, err)
        /\ UNCHANGED << cfgVars, pureVars, sideVars, passive, ctl, ctlTLS, hs, callPw, unread, wroteUnread,
                        sock, lst >>

\* ------------------------------------------------------ FtpDataConn.Close
\* Close the data socket, then read the final reply (226); the error of the
\* read, when there is one, is the one returned.
Close(closeok, o) ==
    LET r == getResponse(FinalExpect, o, ctlTLS)
        err == IF closeok THEN Nil ELSE Result("dataclose", 0, NoMsg)
    IN  /\ pc = "idle"
        /\ ctl = "open"
        /\ data.st = "open"
        /\ op' = "Close"
        /\ pc' = "done"
        /\ wire' = << Ev(IF closeok THEN "dclose" ELSE "dclosefail", "", 0, data.tls # "raw") >>
                   \o r.ev
        /\ log' = r.lg
        /\ logTwin' = r.lg
        /\ data' = [data EXCEPT !.st = "closed"]
        /\ finalReads' = finalReads + 1
        /\ finalOwed' = (finalOwed /\ ~r.readok)
        /\ broken' = (broken \/ r.err.kind = "transport")
        /\ ret' = CloseResult(r, err)
        /\ UNCHANGED << cfgVars, pureVars, sideVars, passive, ctl, ctlTLS, hs, callPw, unread, wroteUnread,
                        sock, lst >>

\* ------------------------------------------------------ FtpDataConn.Read, Write
\* What a Read or a Write of the data connection comes to: it went well,
\* the TLS handshake that the first one runs failed, or the I/O failed.
DataOutcomes == { "ok", "hsfail", "iofail" }

\* Read and Write: one read or write of the data socket.  The first one on
\* a TLS wrapper runs the handshake before it moves any data.
DataIO(method, outcome) ==
    /\ pc = "idle"
    /\ ctl = "open"
    /\ data.st = "open"
    /\ outcome = "hsfail" => (data.tls # "raw" /\ ~data.hs)
    /\ op' = method
    /\ pc' = "done"
    /\ wire' = << Ev(IF outcome = "ok" THEN "dio" ELSE "diofail", "", 0, data.tls # "raw") >>
    /\ data' = [data EXCEPT !.hs = data.hs \/ (data.tls # "raw" /\ outcome # "hsfail")]
    /\ ret' = IF outcome = "ok" THEN Nil ELSE Result("data", 0, NoMsg)
    /\ UNCHANGED << cfgVars, pureVars, sideVars, passive, ctl, ctlTLS, hs, callPw, log, logTwin, unread,
                    wroteUnread, finalOwed, broken, sock, lst, finalReads >>

Read(outcome) == DataIO("Read", outcome)

Write(outcome) == DataIO("Write", outcome)

\* ============================================ functions on their own
\* The decoders and the listing parser are functions of their argument: each
\* is applied once to an argument drawn from a bounded set, outside any
\* Session.

\* ---------------------------------------------------------- parse227
\* Values of one number of a PASV payload: the ends of 0..255 and two inside.
Bytes == { 0, 1, 10, 255 }

\* The reply text "Entering Passive Mode (h1,h2,h3,h4,p1,p2).".
Payload227(h1, h2, h3, h4, p1, p2) ==
    << Sep("t"), Sep("("), Num(h1), Sep(","), Num(h2), Sep(","), Num(h3), Sep(","),
       Num(h4), Sep(","), Num(p1), Sep(","), Num(p2), Sep(")"), Sep(".") >>

Payloads227 ==
    { Payload227(h1, h2, h3, h4, p1, p2) : h1 \in { 10, 255 }, h2 \in { 0 }, h3 \in Bytes,
                                           h4 \in Bytes, p1 \in Bytes, p2 \in Bytes }

\* Messages without six numbers separated by commas: no text, text only,
\* five numbers, six numbers with another separator, an EPSV payload.
NoPayloads227 ==
    { NoMsg, MsgText, MsgEpsv,
      << Sep("("), Num(10), Sep(","), Num(0), Sep(","), Num(0), Sep(","), Num(1),
         Sep(","), Num(7), Sep(")") >>,
      << Num(10), Sep("."), Num(0), Sep("."), Num(0), Sep("."), Num(1), Sep("."),
         Num(7), Sep("."), Num(138) >>,
      << Num(10), Sep(","), Num(0), Sep(","), Num(0), Sep(","), Num(1), Sep(","),
         Num(7), Sep(","), Sep(" "), Num(138) >> }

Inputs227 == Payloads227 \cup NoPayloads227

Init227 ==
    /\ SessionInit
    /\ SideIdle
    /\ pin \in Inputs227
    /\ pout = NoOut

Apply227 ==
    /\ pout = NoOut
    /\ pout' = Applied("parse227", parse227(pin))
    /\ UNCHANGED << sessionVars, sideVars, pin >>

Next227 == Apply227

Spec227 == Init227 /\ [][Next227]_vars

\* ---------------------------------------------------------- parse257
\* The longest message given to parse257.
MaxMsgLen == 4

\* The characters of a 257 message: the double quote and two others.
Alphabet257 == { Sep(QUOTE), Sep("/"), Sep("a") }

Inputs257 == UNION { [1..n -> Alphabet257] : n \in 0..MaxMsgLen }

Init257 ==
    /\ SessionInit
    /\ SideIdle
    /\ pin \in Inputs257
    /\ pout = NoOut

Apply257 ==
    /\ pout = NoOut
    /\ pout' = Applied("parse257", parse257(pin))
    /\ UNCHANGED << sessionVars, sideVars, pin >>

Next257 == Apply257

Spec257 == Init257 /\ [][Next257]_vars

\* ====================================================== listing parser
\* A line of a listing is a sequence of characters, each a string of
\* length one.  The operators below are those of ftpparser.go and the library
\* functions it calls, on such sequences.

DigitChars == << "0", "1", "2", "3", "4", "5", "6", "7", "8", "9" >>
HexChars == << "a", "b", "c", "d", "e", "f" >>
HexCharsUpper == << "A", "B", "C", "D", "E", "F" >>

IsDigit(c) == \E d \in 1..10 : DigitChars[d] = c

\* The value of a digit in a base up to 16; 16 for any other character.
DigitVal(c) ==
    IF \E d \in 1..10 : DigitChars[d] = c
    THEN (CHOOSE d \in 1..10 : DigitChars[d] = c) - 1
    ELSE IF \E d \in 1..6 : HexChars[d] = c
    THEN (CHOOSE d \in 1..6 : HexChars[d] = c) + 9
    ELSE IF \E d \in 1..6 : HexCharsUpper[d] = c
    THEN (CHOOSE d \in 1..6 : HexCharsUpper[d] = c) + 9
    ELSE 16

\* The substring s[from:] of Go, from counted from 0.
From(s, from) == SubSeq(s, from + 1, Len(s))

\* strings.Index for one character: its first place counted from 0, -1
\* when it does not occur.
Index(s, c) ==
    LET at == { i \in 1..Len(s) : s[i] = c }
    IN  IF at = {} THEN 0 - 1 ELSE (CHOOSE i \in at : \A j \in at : i <= j) - 1

\* strings.Contains for one character.
Contains(s, c) == \E i \in 1..Len(s) : s[i] = c

\* strings.HasPrefix.
HasPrefix(s, p) == Len(s) >= Len(p) /\ SubSeq(s, 1, Len(p)) = p

\* strings.TrimLeft(s, " ").
RECURSIVE TrimLeft(_)
TrimLeft(s) ==
    IF s # << >> /\ s[1] = " " THEN TrimLeft(Tail(s)) ELSE s

\* The bytes of a white-space character in UTF-8.  A byte that is no
\* character of ASCII is named by its value.
Utf8(rune) ==
    CASE rune = "U+000B" -> << "0x0B" >>
      [] rune = "U+0085" -> << "0xC2", "0x85" >>
      [] rune = "U+00A0" -> << "0xC2", "0xA0" >>
      [] rune = "U+1680" -> << "0xE1", "0x9A", "0x80" >>
      [] rune = "U+2000" -> << "0xE2", "0x80", "0x80" >>
      [] rune = "U+2001" -> << "0xE2", "0x80", "0x81" >>
      [] rune = "U+2002" -> << "0xE2", "0x80", "0x82" >>
      [] rune = "U+2003" -> << "0xE2", "0x80", "0x83" >>
      [] rune = "U+2004" -> << "0xE2", "0x80", "0x84" >>
      [] rune = "U+2005" -> << "0xE2", "0x80", "0x85" >>
      [] rune = "U+2006" -> << "0xE2", "0x80", "0x86" >>
      [] rune = "U+2007" -> << "0xE2", "0x80", "0x87" >>
      [] rune = "U+2008" -> << "0xE2", "0x80", "0x88" >>
      [] rune = "U+2009" -> << "0xE2", "0x80", "0x89" >>
      [] rune = "U+200A" -> << "0xE2", "0x80", "0x8A" >>
      [] rune = "U+2028" -> << "0xE2", "0x80", "0xA8" >>
      [] rune = "U+2029" -> << "0xE2", "0x80", "0xA9" >>
      [] rune = "U+202F" -> << "0xE2", "0x80", "0xAF" >>
      [] rune = "U+205F" -> << "0xE2", "0x81", "0x9F" >>
      [] rune = "U+3000" -> << "0xE3", "0x80", "0x80" >>
      [] OTHER -> << rune >>

\* The white space of a line, as bytes.
SpaceBytes == { Utf8(rune) : rune \in SpaceRunes }

\* The bytes that start a white-space character.
SpaceLeads == { b[1] : b \in SpaceBytes }

\* unicode.IsSpace on the character that starts s: the number of bytes of
\* that character when it is white space, 0 when it is not (or s is empty).
\* A byte that starts none of the white-space characters is never part of
\* one, so the bytes of any other character are passed one by one.
IsSpace(s) ==
    IF s = << >> THEN 0
    ELSE IF s[1] \notin SpaceLeads THEN 0
    ELSE IF \E b \in SpaceBytes : HasPrefix(s, b)
    THEN Len(CHOOSE b \in SpaceBytes : HasPrefix(s, b))
    ELSE 0

\* The length in bytes of the run of characters other than white space
\* that starts s.
RECURSIVE WordLen(_)
WordLen(s) ==
    IF s = << >> \/ IsSpace(s) > 0 THEN 0 ELSE 1 + WordLen(Tail(s))

\* strings.Fields: the words of s, split around runs of white space.
RECURSIVE Fields(_)
Fields(s) ==
    LET space == IsSpace(s)
        word == WordLen(s)
    IN  IF s = << >> THEN << >>
        ELSE IF space > 0 THEN Fields(From(s, space))
        ELSE << SubSeq(s, 1, word) >> \o Fields(From(s, word))

\* strings.Join(words, " ").
RECURSIVE Join(_)
Join(words) ==
    IF words = << >> THEN << >>
    ELSE IF Len(words) = 1 THEN words[1]
    ELSE words[1] \o << " " >> \o Join(Tail(words))

\* ------------------------------------------------------ strconv.ParseUint
\* A number of 64 bits is the sequence of its four parts of 16 bits, the
\* highest first: the numbers of the model checker are too short for it.
Part == 2 ^ 16

\* A small number as a number of 64 bits.
Uint64(n) == << 0, 0, n \div Part, n % Part >>

\* int64(size): the same 64 bits read with a sign; from 2^63 on the number
\* is negative.
IsNegative(size) == size[1] >= Part \div 2

\* n * base + d, and whether it is beyond 64 bits.
MulAdd(n, base, d) ==
    LET t4 == n[4] * base + d
        t3 == n[3] * base + t4 \div Part
        t2 == n[2] * base + t3 \div Part
        t1 == n[1] * base + t2 \div Part
    IN  [over |-> t1 >= Part, n |-> << t1 % Part, t2 % Part, t3 % Part, t4 % Part >>]

\* The number written by digits in a base, all of them digits of the base;
\* ok is FALSE when the number is beyond 64 bits (ErrRange).
RECURSIVE NumberIn(_, _)
NumberIn(digits, base) ==
    IF digits = << >> THEN [ok |-> TRUE, n |-> Uint64(0)]
    ELSE LET high == NumberIn(SubSeq(digits, 1, Len(digits) - 1), base)
             r == MulAdd(high.n, base, DigitVal(digits[Len(digits)]))
         IN  IF high.ok /\ ~r.over THEN [ok |-> TRUE, n |-> r.n]
             ELSE [ok |-> FALSE, n |-> Uint64(0)]

\* Digits of a base and nothing else.
DigitsIn(w, base) == \A i \in 1..Len(w) : DigitVal(w[i]) < base

\* s without its underscores.
RECURSIVE WithoutUnderscores(_)
WithoutUnderscores(s) ==
    IF s = << >> THEN s
    ELSE IF s[1] = "_" THEN WithoutUnderscores(Tail(s))
    ELSE << s[1] >> \o WithoutUnderscores(Tail(s))

\* The scan of strconv.underscoreOK: last is "0" after a digit or a base
\* prefix, "_" after an underscore, "!" after another character and "^" at
\* the start.  An underscore is allowed between digits only.
RECURSIVE UnderscoreScan(_, _, _)
UnderscoreScan(s, last, hex) ==
    IF s = << >> THEN last # "_"
    ELSE IF IsDigit(s[1]) \/ (hex /\ DigitVal(s[1]) < 16)
    THEN UnderscoreScan(Tail(s), "0", hex)
    ELSE IF s[1] = "_" THEN last = "0" /\ UnderscoreScan(Tail(s), "_", hex)
    ELSE last # "_" /\ UnderscoreScan(Tail(s), "!", hex)

\* strconv.underscoreOK.
underscoreOK(s) ==
    LET t == IF s # << >> /\ s[1] \in { "+", "-" } THEN Tail(s) ELSE s
        prefixed == Len(t) >= 2 /\ t[1] = "0" /\ t[2] \in { "b", "B", "o", "O", "x", "X" }
    IN  UnderscoreScan(IF prefixed THEN From(t, 2) ELSE t,
                       IF prefixed THEN "0" ELSE "^",
                       prefixed /\ t[2] \in { "x", "X" })

\* strconv.ParseUint(w, base, 64) for base 10 and base 0.  Base 0 takes the
\* base from the prefix (0x 16, 0b 2, 0o 8, each before one more character
\* at least; another 0 in front 8; else 10) and allows underscores between
\* digits.  A sign is no part of a number, and a number beyond 2^64 - 1 is
\* an error.
ParseUint(w, base) ==
    LET pre == IF base = 0 /\ w # << >> /\ w[1] = "0"
               THEN IF Len(w) >= 3 /\ w[2] \in { "b", "B" } THEN << 2, 2 >>
                    ELSE IF Len(w) >= 3 /\ w[2] \in { "o", "O" } THEN << 8, 2 >>
                    ELSE IF Len(w) >= 3 /\ w[2] \in { "x", "X" } THEN << 16, 2 >>
                    ELSE << 8, 1 >>
               ELSE << IF base = 0 THEN 10 ELSE base, 0 >>
        body == From(w, pre[2])
        digits == IF base = 0 THEN WithoutUnderscores(body) ELSE body
        v == NumberIn(digits, pre[1])
    IN  IF /\ w # << >>
           /\ DigitsIn(digits, pre[1])
           /\ v.ok
           /\ (base = 0 /\ Contains(body, "_")) => underscoreOK(w)
        THEN [ok |-> TRUE, n |-> v.n]
        ELSE [ok |-> FALSE, n |-> Uint64(0)]

\* ------------------------------------------------------ time.Parse
MonthNames ==
    << << "J", "a", "n" >>, << "F", "e", "b" >>, << "M", "a", "r" >>,
       << "A", "p", "r" >>, << "M", "a", "y" >>, << "J", "u", "n" >>,
       << "J", "u", "l" >>, << "A", "u", "g" >>, << "S", "e", "p" >>,
       << "O", "c", "t" >>, << "N", "o", "v" >>, << "D", "e", "c" >> >>

\* The same names with the case of every letter changed.
MonthNamesOtherCase ==
    << << "j", "A", "N" >>, << "f", "E", "B" >>, << "m", "A", "R" >>,
       << "a", "P", "R" >>, << "m", "A", "Y" >>, << "j", "U", "N" >>,
       << "j", "U", "L" >>, << "a", "U", "G" >>, << "s", "E", "P" >>,
       << "o", "C", "T" >>, << "n", "O", "V" >>, << "d", "E", "C" >> >>

\* w is the name of month m, in any case of its letters.
IsMonth(w, m) ==
    /\ Len(w) = 3
    /\ \A k \in 1..3 : w[k] \in { MonthNames[m][k], MonthNamesOtherCase[m][k] }

\* The month a three-letter name stands for, 0 when it is no month.
MonthOf(w) ==
    IF \E m \in 1..12 : IsMonth(w, m)
    THEN CHOOSE m \in 1..12 : IsMonth(w, m)
    ELSE 0

IsLeap(year) == year % 4 = 0 /\ (year % 100 # 0 \/ year % 400 = 0)

\* time.daysIn.
DaysIn(month, year) ==
    IF month = 2 THEN (IF IsLeap(year) THEN 29 ELSE 28)
    ELSE IF month \in { 4, 6, 9, 11 } THEN 30 ELSE 31

\* The year of a two-character year of a layout ("06"): 1900 is added from
\* 69 on and 2000 below, to a negative number too.
YearOf(yy) == IF yy >= 69 THEN 1900 + yy ELSE 2000 + yy

NoTime == [year |-> 0, month |-> 0, day |-> 0, hour |-> 0, min |-> 0]

\* A layout as time.Parse reads it: chunks of some text and the element
\* that follows it; the last chunk has the rest of the text and no element.
Chunk(prefix, std) == [prefix |-> prefix, std |-> std]

\* "01-02-06  03:04PM"
LayoutDosUS ==
    << Chunk(<< >>, "stdZeroMonth"), Chunk(<< "-" >>, "stdZeroDay"),
       Chunk(<< "-" >>, "stdYear"), Chunk(<< " ", " " >>, "stdZeroHour12"),
       Chunk(<< ":" >>, "stdZeroMinute"), Chunk(<< >>, "stdPM"), Chunk(<< >>, "") >>

\* "2006-01-02  15:04"
LayoutDosISO ==
    << Chunk(<< >>, "stdLongYear"), Chunk(<< "-" >>, "stdZeroMonth"),
       Chunk(<< "-" >>, "stdZeroDay"), Chunk(<< " ", " " >>, "stdHour"),
       Chunk(<< ":" >>, "stdZeroMinute"), Chunk(<< >>, "") >>

\* "_2 Jan 06 15:04 MST"
LayoutUnix ==
    << Chunk(<< >>, "stdUnderDay"), Chunk(<< " " >>, "stdMonth"),
       Chunk(<< " " >>, "stdYear"), Chunk(<< " " >>, "stdHour"),
       Chunk(<< ":" >>, "stdZeroMinute"), Chunk(<< " " >>, "stdTZ"), Chunk(<< >>, "") >>

\* time.skip: the text of the layout is taken off the value.  A run of
\* spaces of the layout stands for any run of spaces of the value, and for
\* the end of the value.
RECURSIVE skip(_, _)
skip(value, prefix) ==
    IF prefix = << >> THEN [ok |-> TRUE, rest |-> value]
    ELSE IF prefix[1] = " "
    THEN IF value # << >> /\ value[1] # " "
         THEN [ok |-> FALSE, rest |-> value]
         ELSE skip(TrimLeft(value), TrimLeft(prefix))
    ELSE IF value = << >> \/ value[1] # prefix[1]
    THEN [ok |-> FALSE, rest |-> value]
    ELSE skip(Tail(value), Tail(prefix))

\* The number of the two digits of s at places i and i + 1.
Two(s, i) == DigitVal(s[i]) * 10 + DigitVal(s[i + 1])

NoNum == [ok |-> FALSE, n |-> 0, rest |-> << >>]

\* time.getnum: a number of two digits, or of one when fixed is FALSE and
\* no second digit follows.
getnum(s, fixed) ==
    IF s = << >> \/ ~IsDigit(s[1]) THEN NoNum
    ELSE IF Len(s) < 2 \/ ~IsDigit(s[2])
    THEN IF fixed THEN NoNum ELSE [ok |-> TRUE, n |-> DigitVal(s[1]), rest |-> Tail(s)]
    ELSE [ok |-> TRUE, n |-> Two(s, 1), rest |-> From(s, 2)]

\* time.leadingInt for the digits of a year.
RECURSIVE leadingInt(_)
leadingInt(digits) ==
    IF digits = << >> THEN 0
    ELSE leadingInt(SubSeq(digits, 1, Len(digits) - 1)) * 10 + DigitVal(digits[Len(digits)])

\* time.atoi for the text of a year: a sign or none, then digits only.
atoi(p) ==
    LET signed == p # << >> /\ p[1] \in { "+", "-" }
        digits == IF signed THEN Tail(p) ELSE p
    IN  IF \A i \in 1..Len(digits) : IsDigit(digits[i])
        THEN [ok |-> TRUE,
              n |-> IF signed /\ p[1] = "-" THEN 0 - leadingInt(digits) ELSE leadingInt(digits)]
        ELSE [ok |-> FALSE, n |-> 0]

\* What time.Parse has read so far; pm is "PM", "AM" or "".
NoClock == [year |-> 0, month |-> 0, day |-> 0, hour |-> 0, min |-> 0, pm |-> ""]
NoElement == [ok |-> FALSE, t |-> NoClock, rest |-> << >>]
Element(ok, t, rest) == [ok |-> ok, t |-> t, rest |-> rest]

\* The elements of a layout that are a number read by getnum, and those of
\* them that take two digits and no fewer.
NumElements ==
    { "stdZeroMonth", "stdZeroDay", "stdUnderDay", "stdHour", "stdZeroHour12", "stdZeroMinute" }
FixedElements == { "stdZeroMonth", "stdZeroDay", "stdZeroHour12", "stdZeroMinute" }

\* The number r that getnum has read, taken as the element of the layout,
\* with the check of its range that time.Parse makes at once: month 1..12,
\* hour 0..23 (0..12 before PM), minute 0..59.  The day is checked at the end.
stdNum(name, r, t) ==
    CASE name = "stdZeroMonth" -> Element(r.ok /\ r.n \in 1..12, [t EXCEPT !.month = r.n], r.rest)
      [] name = "stdHour" -> Element(r.ok /\ r.n < 24, [t EXCEPT !.hour = r.n], r.rest)
      [] name = "stdZeroHour12" -> Element(r.ok /\ r.n <= 12, [t EXCEPT !.hour = r.n], r.rest)
      [] name = "stdZeroMinute" -> Element(r.ok /\ r.n < 60, [t EXCEPT !.min = r.n], r.rest)
      [] OTHER -> Element(r.ok, [t EXCEPT !.day = r.n], r.rest)

\* The year y that atoi has read from the first bytes of the value: of two
\* digits ("06") or of four ("2006").
stdYear(long, y, value, t) ==
    IF ~y.ok THEN NoElement
    ELSE IF long THEN Element(TRUE, [t EXCEPT !.year = y.n], From(value, 4))
    ELSE Element(TRUE, [t EXCEPT !.year = YearOf(y.n)], From(value, 2))

\* The month of the name that starts the value, 0 for none.
stdMonth(month, value, t) ==
    IF month = 0 THEN NoElement ELSE Element(TRUE, [t EXCEPT !.month = month], From(value, 3))

\* One element of a layout read from the value.  "_2" passes one space
\* before the day.  The zone of the one layout that has one is the text GMT
\* that parseDateTime writes.
std(name, value, t) ==
    CASE name \in NumElements ->
            stdNum(name,
                   getnum(IF name = "stdUnderDay" /\ value # << >> /\ value[1] = " "
                          THEN Tail(value) ELSE value,
                          name \in FixedElements),
                   t)
      [] name = "stdYear" ->
            IF Len(value) < 2 THEN NoElement
            ELSE stdYear(FALSE, atoi(SubSeq(value, 1, 2)), value, t)
      [] name = "stdLongYear" ->
            IF Len(value) < 4 \/ ~IsDigit(value[1]) THEN NoElement
            ELSE stdYear(TRUE, atoi(SubSeq(value, 1, 4)), value, t)
      [] name = "stdMonth" ->
            IF Len(value) < 3 THEN NoElement
            ELSE stdMonth(MonthOf(SubSeq(value, 1, 3)), value, t)
      [] name = "stdPM" ->
            IF HasPrefix(value, << "P", "M" >>)
            THEN Element(TRUE, [t EXCEPT !.pm = "PM"], From(value, 2))
            ELSE IF HasPrefix(value, << "A", "M" >>)
            THEN Element(TRUE, [t EXCEPT !.pm = "AM"], From(value, 2))
            ELSE NoElement
      [] OTHER ->
            IF HasPrefix(value, << "G", "M", "T" >>) \/ HasPrefix(value, << "U", "T", "C" >>)
            THEN Element(TRUE, t, From(value, 3))
            ELSE NoElement

\* The end of time.Parse: the hour of the afternoon, and the check of the
\* day against the month and the year.
TimeResult(t) ==
    LET hour == IF t.pm = "PM" /\ t.hour < 12 THEN t.hour + 12
                ELSE IF t.pm = "AM" /\ t.hour = 12 THEN 0
                ELSE t.hour
    IN  IF t.day \in 1..DaysIn(t.month, t.year)
        THEN [ok |-> TRUE,
              t |-> [year |-> t.year, month |-> t.month, day |-> t.day, hour |-> hour,
                     min |-> t.min]]
        ELSE [ok |-> FALSE, t |-> NoTime]

\* time.Parse(layout, value), chunk by chunk: the text before the element,
\* then the element; after the last chunk nothing of the value may be left.
RECURSIVE Parse(_, _, _)

\* The element of the first chunk once it is read: the chunks that follow
\* are read from what it leaves of the value.
ParseNext(layout, read) ==
    IF ~read.ok THEN [ok |-> FALSE, t |-> NoTime]
    ELSE Parse(Tail(layout), read.rest, read.t)

\* The first chunk once its text is off the value: its element is read, or
\* it is the last chunk and nothing of the value may be left.
ParseChunk(layout, text, t) ==
    IF ~text.ok THEN [ok |-> FALSE, t |-> NoTime]
    ELSE IF layout[1].std = ""
    THEN (IF text.rest # << >> THEN [ok |-> FALSE, t |-> NoTime] ELSE TimeResult(t))
    ELSE ParseNext(layout, std(layout[1].std, text.rest, t))

Parse(layout, value, t) == ParseChunk(layout, skip(value, layout[1].prefix), t)

\* time.Parse("01-02-06  03:04PM", s)
ParseDosUS(s) == Parse(LayoutDosUS, s, NoClock)

\* time.Parse("2006-01-02  15:04", s)
ParseDosISO(s) == Parse(LayoutDosISO, s, NoClock)

\* The first result when its err is nil, else the second.
OrElse(first, second) == IF first.ok THEN first ELSE second

\* parseDosDateTime: the first layout, then the second.
parseDosDateTime(input) == OrElse(ParseDosUS(input), ParseDosISO(input))

\* time.Parse("_2 Jan 06 15:04 MST", day + " " + month + " " + yy + clock)
\* where clock starts with a space and ends with " GMT".
ParseUnixTime(day, month, yy, clock) ==
    Parse(LayoutUnix, day \o << " " >> \o month \o << " " >> \o yy \o clock, NoClock)

\* strconv.Itoa(thisYear)[2:4] for a year of four digits.
YearDigits(thisYear) ==
    << DigitChars[((thisYear \div 10) % 10) + 1], DigitChars[(thisYear % 10) + 1] >>

GMT == << " ", "G", "M", "T" >>
Midnight == << " ", "0", "0", ":", "0", "0" >> \o GMT

\* parseDateTime(fields[5:8]): month, day, then a clock (the year is the
\* current one) or a year of four bytes, of which the last two are read
\* (the time is midnight).
parseDateTime(fields, thisYear) ==
    IF ~Contains(fields[3], ":") /\ Len(fields[3]) # 4
    THEN [ok |-> FALSE, t |-> NoTime]
    ELSE ParseUnixTime(fields[2], fields[1],
                       IF Contains(fields[3], ":") THEN YearDigits(thisYear)
                       ELSE SubSeq(fields[3], 3, 4),
                       IF Contains(fields[3], ":") THEN << " " >> \o fields[3] \o GMT
                       ELSE Midnight)

\* ------------------------------------------------------ the two formats
\* What a format parser returns: an entry, errUnknownFormat ("unknown"),
\* another error ("error"), or a run-time panic of an index or a slice out
\* of range ("panic").
NoInfo == [name |-> << >>, size |-> Uint64(0), type |-> "-", perm |-> {}, mtime |-> NoTime,
           raw |-> << >>]
Outcome(kind) == [kind |-> kind, info |-> NoInfo]
Entry(name, size, type, perm, mtime, raw) ==
    [kind |-> "entry",
     info |-> [name |-> name, size |-> size, type |-> type, perm |-> perm,
               mtime |-> mtime, raw |-> raw]]

DirMark == << "<", "D", "I", "R", ">" >>

\* The length of the time stamp that starts a DOS line.
DosStampLen == 17

\* A DOS parser for which a size that is no number is a hard error.
DosSizeErrorHard == "error"

\* What parseDosFormat returns for a size that is no number:
\* errUnknownFormat, as for a time stamp that does not parse.
DosSizeError == "unknown"

\* parseDosFormat once the size is read: the entry of a file.
DosFile(size, name, mtime, input) ==
    IF ~size.ok THEN Outcome(DosSizeError)
    ELSE Entry(TrimLeft(name), size.n, "-", {}, mtime.t, input)

\* parseDosFormat once the time stamp is read: value is the line after the
\* stamp and the spaces that follow it.
DosEntry(mtime, value, input) ==
    IF ~mtime.ok THEN Outcome("unknown")
    ELSE IF HasPrefix(value, DirMark)
    THEN Entry(TrimLeft(From(value, Len(DirMark))), Uint64(0), "d", {}, mtime.t, input)
    ELSE IF Index(value, " ") = 0 - 1 THEN Outcome("unknown")
    ELSE DosFile(ParseUint(SubSeq(value, 1, Index(value, " ")), 10),
                 From(value, Index(value, " ")), mtime, input)

\* parseDosFormat: a time stamp of 17 characters, then "<DIR>" or a size,
\* then the name.  A line shorter than the stamp makes input[:17] panic.
parseDosFormat(input) ==
    IF Len(input) < DosStampLen THEN Outcome("panic")
    ELSE DosEntry(parseDosDateTime(SubSeq(input, 1, DosStampLen)),
                  TrimLeft(From(input, DosStampLen)), input)

\* The file type the first character of the mode field stands for; "-" for
\* a regular file and for every character the switch does not name.
TypeOf(c) ==
    IF c \in { "d", "l", "b", "c", "s" } THEN c
    ELSE IF c \in { "p", "=" } THEN "p"
    ELSE "-"

\* The permission bits of the mode field, as the set of the places 1..9 of
\* rwxrwxrwx that are granted ("s" grants execution too).
PermOf(word) ==
    { k \in 1..9 :
        IF k % 3 = 1 THEN word[k + 1] = "r"
        ELSE IF k % 3 = 2 THEN word[k + 1] = "w"
        ELSE word[k + 1] \in { "x", "s" } }

\* The fewest fields of a Unix line.
UnixFields == 9

\* parseUnixFormat once size and date are read: their errors, or the entry.
UnixFile(fields, size, mtime, input) ==
    IF ~size.ok THEN Outcome("error")
    ELSE IF ~mtime.ok THEN Outcome("error")
    ELSE Entry(Join(From(fields, UnixFields - 1)), size.n, TypeOf(fields[1][1]),
               PermOf(fields[1]), mtime.t, input)

\* parseUnixFormat once strings.Fields has split the line.
UnixEntry(fields, input, thisYear) ==
    IF Len(fields) < UnixFields THEN Outcome("unknown")
    ELSE IF \E k \in 1..9 : k + 1 > Len(fields[1]) THEN Outcome("panic")
    ELSE UnixFile(fields, ParseUint(fields[5], 0),
                  parseDateTime(SubSeq(fields, 6, 8), thisYear), input)

\* parseUnixFormat: mode, links, owner, group, size, month, day, year or
\* clock, name.  fields[0][1..9] is read without a check of its length.
parseUnixFormat(input, thisYear) == UnixEntry(Fields(input), input, thisYear)

\* ------------------------------------------------------------- parse
\* The call of one parser of the list.
CallParser(f, line, thisYear) ==
    IF f = "parseUnixFormat" THEN parseUnixFormat(line, thisYear) ELSE parseDosFormat(line)

\* One round of the loop of parse: r is what parser f returned, rest what
\* the parsers after it return.
Continue(f, r, rest) ==
    IF r.kind = "unknown"
    THEN [rest EXCEPT !.calls = << f >> \o @]
    ELSE [kind |-> r.kind, info |-> r.info, calls |-> << f >>]

\* The loop of parse from parser i on: the first result that is not
\* errUnknownFormat, and errUnknownFormat after the last parser.  calls is
\* the parsers called, in order; it is not part of what parse returns.
RECURSIVE parseFrom(_, _, _, _)
parseFrom(parsers, i, line, thisYear) ==
    IF i > Len(parsers) THEN [kind |-> "unknown", info |-> NoInfo, calls |-> << >>]
    ELSE Continue(parsers[i], CallParser(parsers[i], line, thisYear),
                  parseFrom(parsers, i + 1, line, thisYear))

\* A parse that goes on to the next parser after any failure.
parseSkipErrors(line, thisYear) ==
    LET u == parseUnixFormat(line, thisYear)
        d == parseDosFormat(line)
    IN  IF u.kind = "entry"
        THEN [kind |-> u.kind, info |-> u.info, calls |-> << "parseUnixFormat" >>]
        ELSE [kind |-> d.kind, info |-> d.info,
              calls |-> << "parseUnixFormat", "parseDosFormat" >>]

\* parse(line)
parse(line, thisYear) == parseFrom(formatParsers, 1, line, thisYear)

\* What parse returned, without the record of the calls.
Returned(r) == [kind |-> r.kind, info |-> r.info]

\* ------------------------------------------------- lines of a listing
\* The lines given to parse: Unix lines built from the words below, DOS
\* lines built from a time stamp and a rest, and lines of neither format.
\* Mode fields: a directory, a file, a link, a set-uid file, a field cut short.
ModeWords ==
    { << "d", "r", "w", "x", "r", "-", "x", "r", "-", "x" >>,
      << "-", "r", "w", "-", "r", "-", "-", "r", "-", "-" >>,
      << "l", "r", "w", "x", "r", "w", "x", "r", "w", "x" >>,
      << "-", "r", "w", "s", "r", "-", "x", "r", "-", "x" >>,
      << "d", "r", "w", "x" >> }

\* Size fields: decimal, with a leading zero, and not a number.
SizeWords ==
    { << "0" >>,
      << "1", "2", "3", "4" >>,
      << "0", "1", "0" >>,
      << "1", "2", "a", "4" >> }

\* Month fields.
MonthWords ==
    { << "J", "a", "n" >>,
      << "F", "e", "b" >>,
      << "X", "y", "z" >> }

\* Day fields.
DayWords ==
    { << "1" >>,
      << "2", "9" >>,
      << "3", "1" >> }

\* Year-or-clock fields: a year, a clock, a year of two digits, an hour out of range.
YearWords ==
    { << "2", "0", "2", "3" >>,
      << "2", "0", "2", "4" >>,
      << "1", "2", ":", "3", "0" >>,
      << "2", "3" >>,
      << "2", "4", ":", "0", "0" >> }

\* Names: one word, and two words.
NameWords == { << << "a", ".", "t", "x", "t" >> >>, << << "m", "y" >>, << "f", "i", "l", "e" >> >> }

\* A Unix line: the eight fields before the name and the words of the name,
\* one space between them.
UnixLine(mode, size, month, day, year, name) ==
    Join(<< mode, << "1" >>, << "u" >>, << "g" >>, size, month, day, year >> \o name)

UnixLines ==
    { UnixLine(mode, size, month, day, year, name) :
        mode \in ModeWords, size \in SizeWords, month \in MonthWords, day \in DayWords,
        year \in YearWords, name \in NameWords }

\* Time stamps of 17 characters: the two layouts, a month, an hour and a day
\* out of range, a stamp with one space in the middle, one with three spaces
\* and an hour of one digit, a year with a sign, and "pm" in small letters.
DosStamps ==
    { << "0", "1", "-", "1", "5", "-", "2", "3", " ", " ", "0", "3", ":", "0", "4", "P", "M" >>,
      << "2", "0", "2", "3", "-", "0", "1", "-", "1", "5", " ", " ", "1", "5", ":", "0", "4" >>,
      << "1", "3", "-", "1", "5", "-", "2", "3", " ", " ", "0", "3", ":", "0", "4", "P", "M" >>,
      << "0", "1", "-", "1", "5", "-", "2", "3", " ", " ", "1", "3", ":", "0", "4", "P", "M" >>,
      << "0", "2", "-", "2", "9", "-", "2", "3", " ", " ", "0", "3", ":", "0", "4", "A", "M" >>,
      << "2", "0", "2", "3", "-", "0", "1", "-", "1", "5", " ", "1", "5", ":", "0", "4", " " >>,
      << "2", "0", "2", "3", "-", "0", "1", "-", "1", "5", " ", " ", " ", "5", ":", "0", "4" >>,
      << "0", "1", "-", "1", "5", "-", "+", "5", " ", " ", "0", "3", ":", "0", "4", "P", "M" >>,
      << "0", "1", "-", "1", "5", "-", "-", "5", " ", " ", "0", "3", ":", "0", "4", "P", "M" >>,
      << "0", "1", "-", "1", "5", "-", "2", "3", " ", " ", "0", "3", ":", "0", "4", "p", "m" >> }

\* What follows the stamp: a directory, a file, a size that is no number, a
\* size without a name, nothing, a directory name of seven words.
DosRests ==
    { << " ", "<", "D", "I", "R", ">", " ", "d", "i", "r" >>,
      << " ", " ", "1", "2", "3", "4", " ", "a", ".", "t", "x", "t" >>,
      << " ", " ", "1", "2", "a", "4", " ", "a", ".", "t", "x", "t" >>,
      << " ", "1", "2", "3", "4" >>,
      << >>,
      << " ", "<", "D", "I", "R", ">", " ", "a", " ", "b", " ", "c", " ", "d", " ", "e", " ", "f", " ", "g" >> }

DosLines == { stamp \o rest : stamp \in DosStamps, rest \in DosRests }

EmptyLine == << >>
TotalLine == << "t", "o", "t", "a", "l", " ", "1", "2" >>
\* Lines of neither format, a Unix line with runs of spaces and a tab, and
\* nine fields of one character.
OtherLines ==
    { << "a" >>,
      << "0", "1", "-", "1", "5", "-", "2", "3", " ", " ", "0", "3", ":", "0", "4", "P" >>,
      << "t", "o", "t", "a", "l", " ", "1", "2", " ", "a", "n", "d", " ", "m", "o", "r", "e", " ", "t", "e", "x", "t" >>,
      << "d", "r", "w", "x", "r", "-", "x", "r", "-", "x", " ", " ", "1", " ", "u", "	", "g", " ", "0", " ", "J", "a", "n", " ", " ", "1", " ", "2", "0", "2", "3", " ", "a", ".", "t", "x", "t" >>,
      << "a", " ", "b", " ", "c", " ", "d", " ", "e", " ", "f", " ", "g", " ", "h", " ", "i" >> }

\* Size fields at the ends of strconv.ParseUint: underscores between the
\* digits and elsewhere, a base prefix, 2^63, 2^64 - 1 and 2^64, a sign.
EdgeSizeWords ==
    { << "1", "_", "0" >>,
      << "1", "_", "_", "0" >>,
      << "0", "x", "1", "F" >>,
      << "0", "x" >>,
      << "9", "2", "2", "3", "3", "7", "2", "0", "3", "6", "8", "5", "4", "7", "7", "5", "8", "0", "8" >>,
      << "1", "8", "4", "4", "6", "7", "4", "4", "0", "7", "3", "7", "0", "9", "5", "5", "1", "6", "1", "5" >>,
      << "1", "8", "4", "4", "6", "7", "4", "4", "0", "7", "3", "7", "0", "9", "5", "5", "1", "6", "1", "6" >>,
      << "+", "5" >> }

\* Year fields of four bytes whose last two are a sign and a digit, and a
\* month in capitals.
EdgeYearWords == { << "a", "b", "+", "5" >>, << "a", "b", "-", "5" >>, << "2", "0", "6", "9" >> }

\* Unix lines with a field at an end of what the library functions take.
EdgeUnixLines ==
    { UnixLine(<< "-", "r", "w", "-", "r", "-", "-", "r", "-", "-" >>, size, << "J", "a", "n" >>,
               << "1" >>, << "2", "0", "2", "3" >>, << << "a", ".", "t", "x", "t" >> >>) :
        size \in EdgeSizeWords }
    \cup
    { UnixLine(<< "-", "r", "w", "-", "r", "-", "-", "r", "-", "-" >>, << "7" >>, << "J", "A", "N" >>,
               << "1" >>, year, << << "a", ".", "t", "x", "t" >> >>) :
        year \in EdgeYearWords }

\* Lines with white space other than the space and the tab: a Unix line
\* whose fields a form feed, a vertical tab, a no-break space and a line
\* separator part, a line of two words parted by a form feed, a name with a
\* no-break space in it, and a DOS line whose time stamp a no-break space
\* makes 17 bytes long.
SpaceLines ==
    { << "-", "r", "w", "-", "r", "-", "-", "r", "-", "-", "\f", "1", "0x0B", "u", "0xC2", "0xA0", "g",
         "0xC2", "0x85", "7", "0xE2", "0x80", "0xA8", "J", "a", "n", " ", "1", " ", "2", "0", "2", "3",
         " ", "a", ".", "t", "x", "t" >>,
      << "a", "\f", "b" >>,
      << "-", "r", "w", "-", "r", "-", "-", "r", "-", "-", " ", "1", " ", "u", " ", "g", " ", "7", " ",
         "J", "a", "n", " ", "1", " ", "2", "0", "2", "3", " ", "m", "y", "0xC2", "0xA0", "f", "i", "l",
         "e" >>,
      << "0", "1", "-", "1", "5", "-", "2", "3", "0xC2", "0xA0", "0", "3", ":", "0", "4", "P", "M", " ",
         "<", "D", "I", "R", ">", " ", "d", "i", "r" >>,
      << "a", "0xC2", "b", "0xE2", "0x80", "c" >> }

Lines ==
    UnixLines \cup DosLines \cup OtherLines \cup EdgeUnixLines \cup SpaceLines
    \cup { EmptyLine, TotalLine }

\* The years a call can run in: a common year and a leap year.
Years == { 2023, 2024 }

InitParse ==
    /\ SessionInit
    /\ SideIdle
    /\ ~tlsConfig /\ ~tlsImplicit /\ ipv4
    /\ pin \in Lines
    /\ pout = NoOut

ApplyParse(thisYear) ==
    /\ pout = NoOut
    /\ pout' = [fn |-> "parse", r |-> parse(pin, thisYear), year |-> thisYear]
    /\ UNCHANGED << sessionVars, sideVars, pin >>

NextParse == \E thisYear \in Years : ApplyParse(thisYear)

SpecParse == InitParse /\ [][NextParse]_vars

\* --------------------------------------------------------------- Dir
\* The loop of Dir over the lines the scanner delivers: an entry for every
\* line parse returns without an error, nothing for a line it returns an
\* error for.  A panic of parse ends the loop and Dir with it.
RECURSIVE DirLoop(_, _, _)

\* One round of the loop: r is what parse returned for the first line.
DirLine(r, lines, infos, years) ==
    IF r.kind = "panic" THEN [kind |-> "panic", infos |-> << >>]
    ELSE DirLoop(Tail(lines), IF r.kind = "entry" THEN Append(infos, r.info) ELSE infos,
                 Tail(years))

DirLoop(lines, infos, years) ==
    IF lines = << >> THEN [kind |-> "ok", infos |-> infos]
    ELSE DirLine(parse(lines[1], years[1]), lines, infos, years)

\* The end of Dir: r is what the loop came to.
DirEnd(r, readok) ==
    IF r.kind = "ok" /\ ~readok THEN [kind |-> "error", infos |-> << >>] ELSE r

\* Dir once the data connection is open: the loop, then scanner.Err().
\* readok: the listing was read to its end without an error.
Dir(lines, readok, years) == DirEnd(DirLoop(lines, << >>, years), readok)

\* The most lines of a listing.
MaxLines == 2

\* The lines of the listings: a Unix directory and a Unix file, a DOS
\* directory, the "total" line, the empty line, a line of text longer than
\* a DOS stamp, a Unix line whose size is no number, and a line of nine
\* short fields.
DirLines ==
    { << "d", "r", "w", "x", "r", "-", "x", "r", "-", "x", " ", "1", " ", "u", " ", "g", " ", "0", " ", "J", "a", "n", " ", "1", " ", "2", "0", "2", "3", " ", "s", "u", "b" >>,
      << "-", "r", "w", "-", "r", "-", "-", "r", "-", "-", " ", "1", " ", "u", " ", "g", " ", "1", "2", "3", "4", " ", "F", "e", "b", " ", "2", "9", " ", "1", "2", ":", "3", "0", " ", "a", ".", "t", "x", "t" >>,
      << "0", "1", "-", "1", "5", "-", "2", "3", " ", " ", "0", "3", ":", "0", "4", "P", "M", " ", "<", "D", "I", "R", ">", " ", "d", "i", "r" >>,
      << "t", "o", "t", "a", "l", " ", "1", "2", " ", "a", "n", "d", " ", "m", "o", "r", "e", " ", "t", "e", "x", "t" >>,
      << "-", "r", "w", "-", "r", "-", "-", "r", "-", "-", " ", "1", " ", "u", " ", "g", " ", "1", "2", "a", "4", " ", "J", "a", "n", " ", "1", " ", "2", "0", "2", "3", " ", "a", ".", "t", "x", "t" >>,
      << "a", " ", "b", " ", "c", " ", "d", " ", "e", " ", "f", " ", "g", " ", "h", " ", "i" >>,
      TotalLine, EmptyLine }

Listings == UNION { [1..n -> DirLines] : n \in 0..MaxLines }

InitDir ==
    /\ SessionInit
    /\ SideIdle
    /\ ~tlsConfig /\ ~tlsImplicit /\ ipv4
    /\ pin \in Listings
    /\ pout = NoOut

\* The years of the clock at the calls of parse on n lines, one after the
\* other: the clock does not go back.
YearsOf(n) == { years \in [1..n -> Years] : \A i \in 1..(n - 1) : years[i] <= years[i + 1] }

ApplyDir(readok, years) ==
    /\ pout = NoOut
    /\ pout' = [fn |-> "Dir", r |-> Dir(pin, readok, years), readok |-> readok,
                years |-> years]
    /\ UNCHANGED << sessionVars, sideVars, pin >>

NextDir == \E readok \in BOOLEAN, years \in YearsOf(Len(pin)) : ApplyDir(readok, years)

SpecDir == InitDir /\ [][NextDir]_vars

\* ------------------------------------------------------ whole transfers
\* The listings Dir receives in a call of the Session: an empty one, one
\* Unix line, and the "total" line that servers put first.
TransferListings ==
    { << >>,
      << << "d", "r", "w", "x", "r", "-", "x", "r", "-", "x", " ", "1", " ", "u", " ", "g", " ", "0", " ", "J", "a", "n", " ", "1", " ", "2", "0", "2", "3", " ", "s", "u", "b" >> >>,
      << TotalLine >> }

\* What became of the data for what Dir came to.
BodyOf(kind) == CASE kind = "ok" -> "ok" [] kind = "error" -> "fail" [] OTHER -> "panic"

\* What becomes of the reading or writing of the data: "ok", "fail" (an
\* error of the read or the write) or "panic".  Dir runs parse on every line
\* as it reads it, and a panic of parse ends Dir; the others do not parse.
FileBody(top, lines, readok, years) ==
    IF top # "Dir" THEN (IF readok THEN "ok" ELSE "fail")
    ELSE BodyOf(Dir(lines, readok, years).kind)

\* Whether the handshake of the data connection's TLS wrapper has run by
\* the end of the reading or writing.  The first Read or Write runs it, so
\* it has run when Dir has read a line.  It has not run when that first Read
\* or Write failed in it, when RetrFile returned at os.Create, and when
\* StorFile found its file empty and wrote nothing; nor when the peer
\* closed the data connection before any TLS record: the first Read then
\* returns io.EOF out of the handshake, which the scanner of getLines and
\* the loop of RetrFile take for the end of the data, and the body ends
\* well with no data.  A raw socket has no handshake.
BodyHandshakes(lines, readok) ==
    { shook \in BOOLEAN :
        /\ shook => data.tls # "raw"
        /\ (readok /\ op = "Dir" /\ lines # << >> /\ data.tls # "raw") => shook }

\* What Nlst, List, Dir, RetrFile and StorFile return: the result of the
\* reading or writing of the data; the result of the deferred Close is
\* dropped.  A panic goes on to the caller once the deferred Close has run.
FileResult(body, closed) ==
    CASE body = "ok" -> Nil
      [] body = "fail" -> Result("body", 0, NoMsg)
      [] OTHER -> Result("panic", 0, NoMsg)

\* The end of Nlst, List, Dir, RetrFile or StorFile once the data connection
\* is there: the data is read or written (lines is the listing that Dir
\* receives, readok tells whether the reading or writing went well), then
\* the deferred Close closes the data socket and reads the final reply,
\* in a panic too.
FileFinish(lines, readok, years, closeok, o) ==
    LET r == getResponse(FinalExpect, o, ctlTLS)
        err == IF closeok THEN Nil ELSE Result("dataclose", 0, NoMsg)
        body == FileBody(op, lines, readok, years)
    IN  /\ pc = "tf_body"
        /\ pc' = "done"
        /\ wire' = wire \o
                   << Ev(CASE body = "ok" -> "body" [] body = "fail" -> "bodyfail"
                           [] OTHER -> "bodypanic", "", 0, data.tls # "raw"),
                      Ev(IF closeok THEN "dclose" ELSE "dclosefail", "", 0, data.tls # "raw") >>
                   \o r.ev
        /\ log' = log \o r.lg
        /\ logTwin' = logTwin \o r.lg
        /\ \E shook \in BodyHandshakes(lines, readok) :
              data' = [data EXCEPT !.st = "closed", !.hs = shook]
        /\ finalReads' = finalReads + 1
        /\ finalOwed' = (finalOwed /\ ~r.readok)
        /\ broken' = (broken \/ r.err.kind = "transport")
        /\ ret' = FileResult(body, CloseResult(r, err))
        /\ UNCHANGED << cfgVars, pureVars, sideVars, passive, ctl, ctlTLS, hs, op, callPw, unread, wroteUnread,
                        sock, lst >>

\* StorFile whose local file does not open: the error of os.Open is
\* returned before anything is written.
StorFileNoFile ==
    /\ MayCall
    /\ op' = "StorFile"
    /\ pc' = "done"
    /\ wire' = << Ev("openfail", "", 0, FALSE) >>
    /\ ret' = Result("open", 0, NoMsg)
    /\ UNCHANGED << cfgVars, pureVars, sideVars, passive, ctl, ctlTLS, hs, callPw, log, logTwin,
                    unread, wroteUnread, finalOwed, broken, data, sock, lst, finalReads >>

\* ------------------------------------------------------ the system
Next ==
    \/ \E dialok \in BOOLEAN, o \in ReadOutcomes : DialTimeout(dialok, o)
    \/ \E b \in BOOLEAN : SetPasv(b)
    \/ \E verb \in SimpleVerbs, o \in Outcomes : SimpleCmd(verb, o)
    \/ \E o \in Outcomes : RenameFrom(o)
    \/ \E o \in Outcomes : RenameTo(o)
    \/ \E pw \in Passwords, o \in Outcomes : LoginAuth(pw, o)
    \/ \E o \in Outcomes : LoginPbsz(o)
    \/ \E o \in Outcomes : LoginProt(o)
    \/ \E user \in Users, pw \in Passwords, o \in Outcomes : LoginUser(user, pw, o)
    \/ \E o \in Outcomes : LoginPass(o)
    \/ \E top \in TransferOps \cup FileOps, o \in Outcomes, dialok \in BOOLEAN :
          TransferPasv(top, o, dialok)
    \/ \E top \in TransferOps \cup FileOps, o \in Outcomes, listenok \in BOOLEAN :
          TransferPort(top, o, listenok)
    \/ \E o \in Outcomes : TransferCmd(o)
    \/ \E acceptok \in BOOLEAN : TransferAccept(acceptok)
    \/ \E closeok \in BOOLEAN, o \in ReadOutcomes : Close(closeok, o)
    \/ \E lines \in TransferListings, readok \in BOOLEAN, closeok \in BOOLEAN,
          o \in ReadOutcomes :
          \E years \in YearsOf(Len(lines)) : FileFinish(lines, readok, years, closeok, o)
    \/ \E expectCode \in CallerCodes, call \in CallerCommands, o \in Outcomes :
          CallSendCmd(expectCode, call, o)
    \/ \E expectCode \in CallerCodes, o \in ReadOutcomes : GetResponse(expectCode, o)
    \/ \E o \in Outcomes : Retr(o)
    \/ \E o \in Outcomes : Stor(o)
    \/ \E outcome \in DataOutcomes : Read(outcome)
    \/ \E outcome \in DataOutcomes : Write(outcome)
    \/ \E o \in Outcomes, closeok \in BOOLEAN : Quit(o, closeok)
    \/ \E config \in BOOLEAN : WithTLSConfig(config)
    \/ \E implicit \in BOOLEAN : WithTLSImplicit(implicit)
    \/ StorFileNoFile
    \/ Return

Spec == Init /\ [][Next]_vars

\* ------------------------------------------------ parse, called twice
\* The moments of the calls: a year and a month, in the order of time.
Moments ==
    { [year |-> 2023, month |-> 6], [year |-> 2023, month |-> 12],
      [year |-> 2024, month |-> 1] }

NotBefore(a, b) == a.year > b.year \/ (a.year = b.year /\ a.month >= b.month)

\* thisYear, _, _ := time.Now().Date()
YearAt(now) == now.year

\* A parse that takes the parser it called first off the package's list.
formatParsersShifted(table) == Tail(table)

\* What a call of parse leaves of formatParsers: the loop ranges over the
\* list and assigns nothing to it, nor does any parser it calls.
formatParsersAfter(table) == table

\* parse(line) as a call finds the package: the loop over formatParsers as
\* the calls before it have left them.
parseOnTable(table, line, thisYear) == parseFrom(table, 1, line, thisYear)

\* The lines parsed twice: Unix lines dated by a clock and by a year, a DOS
\* line, a Unix line whose size is no number, and a line of text.
TwiceLines ==
    { << "-", "r", "w", "-", "r", "-", "-", "r", "-", "-", " ", "1", " ", "u", " ", "g", " ", "1", "2", "3", "4", " ", "F", "e", "b", " ", "2", "9", " ", "1", "2", ":", "3", "0", " ", "a", ".", "t", "x", "t" >>,
      << "-", "r", "w", "-", "r", "-", "-", "r", "-", "-", " ", "1", " ", "u", " ", "g", " ", "1", "2", "3", "4", " ", "J", "a", "n", " ", "1", " ", "1", "2", ":", "3", "0", " ", "a", ".", "t", "x", "t" >>,
      << "d", "r", "w", "x", "r", "-", "x", "r", "-", "x", " ", "1", " ", "u", " ", "g", " ", "0", " ", "J", "a", "n", " ", "1", " ", "2", "0", "2", "3", " ", "s", "u", "b" >>,
      << "0", "1", "-", "1", "5", "-", "2", "3", " ", " ", "0", "3", ":", "0", "4", "P", "M", " ", "<", "D", "I", "R", ">", " ", "d", "i", "r" >>,
      << "-", "r", "w", "-", "r", "-", "-", "r", "-", "-", " ", "1", " ", "u", " ", "g", " ", "1", "2", "a", "4", " ", "J", "a", "n", " ", "1", " ", "2", "0", "2", "3", " ", "a", ".", "t", "x", "t" >>,
      << "t", "o", "t", "a", "l", " ", "1", "2", " ", "a", "n", "d", " ", "m", "o", "r", "e", " ", "t", "e", "x", "t" >> }

\* The most calls of parse between the two calls on the same line.
MaxBetween == 2

InitTwice ==
    /\ SessionInit
    /\ SideIdle
    /\ ~tlsConfig /\ ~tlsImplicit /\ ipv4
    /\ pin \in TwiceLines
    /\ pout = NoOut

\* The first call of parse on the line.
ParseFirst(now) ==
    /\ pout = NoOut
    /\ pout' = [fn |-> "parse1", first |-> Returned(parseOnTable(parserTable, pin, YearAt(now))),
                now1 |-> now, now |-> now, between |-> 0, other |-> Outcome("unknown")]
    /\ parserTable' = formatParsersAfter(parserTable)
    /\ UNCHANGED << sessionVars, listenVars, ioVars, fileVars, thread, socket, seen, patterns, pin >>

\* A call of parse on another line, later.
ParseOther(line, now) ==
    /\ pout.fn = "parse1"
    /\ pout.between < MaxBetween
    /\ NotBefore(now, pout.now)
    /\ pout' = [pout EXCEPT !.between = @ + 1, !.now = now,
                             !.other = Returned(parseOnTable(parserTable, line, YearAt(now)))]
    /\ parserTable' = formatParsersAfter(parserTable)
    /\ UNCHANGED << sessionVars, listenVars, ioVars, fileVars, thread, socket, seen, patterns, pin >>

\* The second call of parse on the line, later.
ParseAgain(now) ==
    /\ pout.fn = "parse1"
    /\ NotBefore(now, pout.now)
    /\ pout' = [fn |-> "parse2", first |-> pout.first,
                second |-> Returned(parseOnTable(parserTable, pin, YearAt(now))),
                now1 |-> pout.now1, now2 |-> now, between |-> pout.between]
    /\ parserTable' = formatParsersAfter(parserTable)
    /\ UNCHANGED << sessionVars, listenVars, ioVars, fileVars, thread, socket, seen, patterns, pin >>

NextTwice ==
    \/ \E now \in Moments : ParseFirst(now)
    \/ \E line \in TwiceLines, now \in Moments : ParseOther(line, now)
    \/ \E now \in Moments : ParseAgain(now)

SpecTwice == InitTwice /\ [][NextTwice]_vars

\* ------------------------------------------------------ PORT and EPRT
\* An address: v4 tells whether net.ParseIP(host).To4() is not nil, sep is
\* the character the host is written with between its numbers, host these
\* numbers: the four numbers of an IPv4 host, written with dots, or the
\* eight groups of an IPv6 host, written with colons.
Addr(v4, host, port) ==
    [v4 |-> v4, sep |-> IF v4 THEN "." ELSE ":", host |-> host, port |-> port]

\* A host written with dots that is no IP address, as a caller may pass:
\* net.ParseIP returns nil for it.
Dotted(host, port) == [v4 |-> FALSE, sep |-> ".", host |-> host, port |-> port]

\* Go's integer division and remainder: the quotient is truncated toward
\* zero and the remainder has the sign of the dividend.
Quo(x, y) ==
    LET q == (IF x < 0 THEN 0 - x ELSE x) \div (IF y < 0 THEN 0 - y ELSE y)
    IN  IF (x < 0) = (y < 0) THEN q ELSE 0 - q
Rem(x, y) == x - Quo(x, y) * y

\* A Port that announces port mod 256 before port / 256.
PortLowByteFirst(hostbytes, port) ==
    Command("PORT", hostbytes \o << Rem(port, 256), Quo(port, 256) >>)

\* Port once the host is split at its dots: "PORT h1,h2,h3,h4,p1,p2" for
\* the four pieces of an IPv4 host, p1 = port / 256 and p2 = port % 256.
\* Neither the pieces nor the port are checked: a host of three pieces
\* gives five numbers, a negative port negative numbers.
Port(hostbytes, port) ==
    Command("PORT", hostbytes \o << Quo(port, 256), Rem(port, 256) >>)

\* Eprt(host, port): "EPRT |family|host|port|", family 1 for an IPv4 host
\* and 2 for any other.
Eprt(v4, host, port) == Command("EPRT", << IF v4 THEN 1 ELSE 2, host, port >>)

\* strings.Split(host, "."): the pieces of the host between its dots.  A
\* host written with dots, an IPv4 address or not, gives its numbers; a host
\* written with colons has no dot and is one piece.
SplitDots(addr) == IF addr.sep = "." THEN addr.host ELSE << addr.host >>

\* makePort once the listener is there: c.port(listenerAddr) when the local
\* host of the control connection is IPv4, c.eprt(listenerAddr) otherwise.
makePortCommand(addr) ==
    IF addr.v4 THEN Port(SplitDots(addr), addr.port)
    ELSE Eprt(addr.v4, addr.host, addr.port)

\* The local hosts of the control connection and the ports the system gives
\* a listener bound to port 0.
LocalHosts == { Addr(TRUE, << 127, 0, 0, 1 >>, 0), Addr(TRUE, << 192, 168, 1, 255 >>, 0),
                Addr(FALSE, << 0, 0, 0, 0, 0, 0, 0, 1 >>, 0),
                Addr(FALSE, << 65152, 0, 0, 0, 0, 0, 0, 1 >>, 0) }
ListenerPorts == { 0, 1, 255, 256, 257, 1024, 51000, 65280, 65535 }
\* The ports a caller of Port or Eprt may pass beside those: any int.
CallerPorts == { 0 - 65536, 0 - 257, 0 - 256, 0 - 255, 0 - 1, 65536, 65537 }
\* The hosts a caller of Port or Eprt may pass beside those: any string,
\* here "256.0.0.1" and "1.2.3".
CallerHosts == { Dotted(<< 256, 0, 0, 1 >>, 0), Dotted(<< 1, 2, 3 >>, 0) }

\* The address is the one of a listener on a local host.
ListenerAddr(addr) ==
    /\ addr.port \in ListenerPorts
    /\ \E h \in LocalHosts : h.sep = addr.sep /\ h.v4 = addr.v4 /\ h.host = addr.host

InitPort ==
    /\ SessionInit
    /\ SideIdle
    /\ ~tlsConfig /\ ~tlsImplicit /\ ipv4
    /\ pin \in { [h EXCEPT !.port = p] : h \in LocalHosts \cup CallerHosts,
                                        p \in ListenerPorts \cup CallerPorts }
    /\ pout = NoOut

\* The listener is at the address pin: the command is written and its
\* reply, which has to be 200, is read.
ApplyMakePort(o) ==
    LET x == SendCmd(CommandOkay, makePortCommand(pin), o, FALSE)
    IN  /\ pout = NoOut
        /\ ListenerAddr(pin)
        /\ pout' = [fn |-> "makePort", cmd |-> makePortCommand(pin), err |-> x.err,
                    ev |-> x.ev]
        /\ UNCHANGED << sessionVars, sideVars, pin >>

\* Port and Eprt called by the user of the package with the host and the
\* port of pin.
CallPort(o) ==
    LET x == SendCmd(CommandOkay, Port(SplitDots(pin), pin.port), o, FALSE)
    IN  /\ pout = NoOut
        /\ pout' = [fn |-> "Port", cmd |-> Port(SplitDots(pin), pin.port), err |-> x.err,
                    ev |-> x.ev]
        /\ UNCHANGED << sessionVars, sideVars, pin >>

CallEprt(o) ==
    LET x == SendCmd(CommandOkay, Eprt(pin.v4, pin.host, pin.port), o, FALSE)
    IN  /\ pout = NoOut
        /\ pout' = [fn |-> "Eprt", cmd |-> Eprt(pin.v4, pin.host, pin.port), err |-> x.err,
                    ev |-> x.ev]
        /\ UNCHANGED << sessionVars, sideVars, pin >>

NextPort ==
    \/ \E o \in Outcomes : ApplyMakePort(o)
    \/ \E o \in Outcomes : CallPort(o)
    \/ \E o \in Outcomes : CallEprt(o)

SpecPort == InitPort /\ [][NextPort]_vars

\* ------------------------------------------- makePort and startListen
\* makePort hands the listen call to a goroutine and waits for its result
\* on the unbuffered channel listening: the send and the receive are one
\* step.  pin is the address the listener gets.

\* A goroutine that ends without a send when the listen call fails.
TaskListenNoSendOnFailure(listenok) ==
    /\ task = "listen"
    /\ taskListener' = IF listenok THEN "bare" ELSE "nil"
    /\ task' = IF listenok THEN "deadline" ELSE "end"
    /\ UNCHANGED << sessionVars, pureVars, ioVars, twoVars, fileVars, mkPc, mkListener, sends >>

\* listenging := startListen(network, newaddr, timeout): the channel is
\* made and the goroutine started; makePort goes on to the receive.
StartListen ==
    /\ mkPc = "start"
    /\ task = "none"
    /\ task' = "listen"
    /\ mkPc' = "recv"
    /\ UNCHANGED << sessionVars, pureVars, ioVars, twoVars, fileVars, taskListener, mkListener, sends >>

\* The goroutine: net.Listen.  The listener it gets has no deadline yet
\* ("bare"); without a listener the goroutine goes to send nil.
TaskListen(listenok) ==
    /\ task = "listen"
    /\ taskListener' = IF listenok THEN "bare" ELSE "nil"
    /\ task' = IF listenok THEN "deadline" ELSE "send"
    /\ UNCHANGED << sessionVars, pureVars, ioVars, twoVars, fileVars, mkPc, mkListener, sends >>

\* A goroutine that goes to the send without a deadline on the listener.
TaskDeadlineSkipped ==
    /\ task = "deadline"
    /\ task' = "send"
    /\ UNCHANGED << sessionVars, pureVars, ioVars, twoVars, fileVars, taskListener, mkPc, mkListener, sends >>

\* The goroutine: l.SetDeadline(time.Now().Add(timeout)) on the listener,
\* a *net.TCPListener as the network is the control connection's ("open"
\* is a listener with its deadline).
TaskDeadline ==
    /\ task = "deadline"
    /\ taskListener' = "open"
    /\ task' = "send"
    /\ UNCHANGED << sessionVars, pureVars, ioVars, twoVars, fileVars, mkPc, mkListener, sends >>

\* listening <- listener (or nil) meets listener := <-listenging; the
\* goroutine returns, and makePort returns "Unable to create listener" when
\* the value is nil.
Receive ==
    /\ task = "send"
    /\ mkPc = "recv"
    /\ sends' = sends + 1
    /\ mkListener' = taskListener
    /\ task' = "end"
    /\ IF taskListener = "nil"
       THEN /\ mkPc' = "done"
            /\ pout' = [fn |-> "makePort", cmd |-> Command("", << >>),
                        err |-> Result("listener", 0, NoMsg), ev |-> << >>]
       ELSE /\ mkPc' = "announce"
            /\ pout' = pout
    /\ UNCHANGED << sessionVars, ioVars, twoVars, fileVars, pin, taskListener >>

\* c.port(listenerAddr) or c.eprt(listenerAddr), and the return of makePort.
Announce(o) ==
    LET x == SendCmd(CommandOkay, makePortCommand(pin), o, FALSE)
    IN  /\ mkPc = "announce"
        /\ mkPc' = "done"
        /\ pout' = [fn |-> "makePort", cmd |-> makePortCommand(pin), err |-> x.err,
                    ev |-> x.ev]
        /\ UNCHANGED << sessionVars, ioVars, twoVars, fileVars, pin, task, taskListener, mkListener, sends >>

InitListen ==
    /\ SessionInit
    /\ ~tlsConfig /\ ~tlsImplicit /\ ipv4
    /\ pin \in { Addr(h.v4, h.host, p) : h \in LocalHosts, p \in ListenerPorts }
    /\ pout = NoOut
    /\ IOIdle
    /\ TwoIdle
    /\ FileIdle
    /\ task = "none"
    /\ taskListener = "unset"
    /\ mkPc = "start"
    /\ mkListener = "unset"
    /\ sends = 0

NextListen ==
    \/ StartListen
    \/ \E listenok \in BOOLEAN : TaskListen(listenok)
    \/ TaskDeadline
    \/ Receive
    \/ \E o \in Outcomes : Announce(o)

\* The goroutine and the caller both run when they can: the scheduler is
\* fair, net.Listen returns, and the exchange on the control connection
\* ends by its deadlines.
SpecListen ==
    /\ InitListen
    /\ [][NextListen]_vars
    /\ WF_vars(StartListen)
    /\ WF_vars(\E listenok \in BOOLEAN : TaskListen(listenok))
    /\ WF_vars(TaskDeadline)
    /\ WF_vars(Receive)
    /\ WF_vars(\E o \in Outcomes : Announce(o))

\* ------------------------------------------------- deadlines of the I/O
\* Every I/O method sets one deadline of the socket, now + readWriteTimeout,
\* and then reads or writes.  A read or a write through a TLS wrapper whose
\* handshake has not run runs the handshake first, which writes and reads.
\* An I/O is recorded with the deadline it ran under: "fresh" (set by the
\* method for this I/O, from readWriteTimeout), "stale" (set for an earlier
\* I/O, or from another duration), "none".
IO(conn, dir, under, inHandshake) ==
    [conn |-> conn, dir |-> dir, under |-> under, hs |-> inHandshake, alert |-> FALSE]

\* (*tls.Conn).Close once the handshake is done: the close_notify alert is
\* written on the socket before the socket is closed, under a deadline that
\* crypto/tls sets for it, which is not now + readWriteTimeout.
CloseNotify(conn) ==
    [conn |-> conn, dir |-> "w", under |-> "stale", hs |-> FALSE, alert |-> TRUE]

\* The I/O of the Close of a connection in the state `state`.
CloseIO(conn, state) == IF state = "done" THEN << CloseNotify(conn) >> ELSE << >>

\* The I/O of the Close of a connection inside n TLS wrappers whose
\* handshakes are done: Close on a wrapper writes its alert and then calls
\* Close on what it is around, so the socket sees n alerts before it closes.
CloseLayersIO(conn, n) == [i \in 1..n |-> CloseNotify(conn)]

\* The deadline an I/O of a direction runs under when the method has just
\* set the deadline of the direction `set`.
Under(conn, dir, set) ==
    IF dir = set THEN "fresh"
    ELSE IF deadline[conn][dir] = "none" THEN "none" ELSE "stale"

\* (*tls.Conn).Handshake inside a Read or a Write: it writes and reads on
\* the socket under the deadlines the socket has.
Handshake(conn, set) ==
    IF tlsState[conn] = "pending"
    THEN << IO(conn, "w", Under(conn, "w", set), TRUE),
            IO(conn, "r", Under(conn, "r", set), TRUE) >>
    ELSE << >>

HandshakeDone(conn) == IF tlsState[conn] = "pending" THEN "done" ELSE tlsState[conn]

\* putCmd: SetWriteDeadline, then the write of the command.
PutCmdIO == Handshake("ctl", "w") \o << IO("ctl", "w", "fresh", FALSE) >>

\* getResponse: SetReadDeadline, then the read of the reply.
GetResponseIO(state) ==
    (IF state = "pending"
     THEN << IO("ctl", "w", Under("ctl", "w", "r"), TRUE), IO("ctl", "r", "fresh", TRUE) >>
     ELSE << >>)
    \o << IO("ctl", "r", "fresh", FALSE) >>

\* SendCmd: putCmd, then getResponse.
SendCmdIO == PutCmdIO \o GetResponseIO("done")

\* DialTimeout(addr, timeout): the dial, with the TLS handshake under the
\* timeout of the dial when TLS is implicit (no deadline when the timeout
\* is 0, as in Dial), then getResponse(220).
IODialTimeout(timed) ==
    LET under == IF timed THEN "stale" ELSE "none"
    IN  /\ tlsState["ctl"] = "none"
        /\ lastIO' = (IF tlsConfig /\ tlsImplicit
                      THEN << IO("ctl", "w", under, TRUE), IO("ctl", "r", under, TRUE) >>
                      ELSE << >>)
                     \o << IO("ctl", "r", "fresh", FALSE) >>
        /\ tlsState' = [tlsState EXCEPT !["ctl"] = IF tlsConfig /\ tlsImplicit
                                                   THEN "done" ELSE "raw"]
        /\ deadline' = [deadline EXCEPT !["ctl"].r = "rw"]
        /\ ctlLayers' = IF tlsConfig /\ tlsImplicit THEN 1 ELSE 0
        /\ UNCHANGED << sessionVars, pureVars, listenVars, twoVars, fileVars >>

\* The most TLS wrappers around the control socket: the one of an implicit
\* dial and those of two upgrades.
MaxLayers == 3

\* Login, the upgrade: SendCmd(AUTH), then tls.Client around the
\* connection, a TLS one already after an earlier upgrade or an implicit
\* dial: the new wrapper is around the one that was there.
IOLoginAuth ==
    /\ tlsState["ctl"] \in { "raw", "done" }
    /\ ExplicitTLS
    /\ ctlLayers < MaxLayers
    /\ lastIO' = SendCmdIO
    /\ tlsState' = [tlsState EXCEPT !["ctl"] = "pending"]
    /\ deadline' = [deadline EXCEPT !["ctl"] = [r |-> "rw", w |-> "rw"]]
    /\ ctlLayers' = ctlLayers + 1
    /\ UNCHANGED << sessionVars, pureVars, listenVars, twoVars, fileVars >>

\* SendCmd, of any command: PBSZ after the upgrade, USER, CWD, ...
IOSendCmd ==
    /\ tlsState["ctl"] \in { "raw", "pending", "done" }
    /\ lastIO' = SendCmdIO
    /\ tlsState' = [tlsState EXCEPT !["ctl"] = HandshakeDone("ctl")]
    /\ deadline' = [deadline EXCEPT !["ctl"] = [r |-> "rw", w |-> "rw"]]
    /\ UNCHANGED << sessionVars, pureVars, listenVars, twoVars, fileVars, ctlLayers >>

\* GetResponse(expectCode, timeout): the deadline is now + timeout, the
\* caller's duration; own tells whether it is readWriteTimeout.
IOGetResponse(own) ==
    /\ tlsState["ctl"] \in { "raw", "pending", "done" }
    /\ lastIO' = (IF tlsState["ctl"] = "pending"
                  THEN << IO("ctl", "w", Under("ctl", "w", "r"), TRUE),
                          IO("ctl", "r", IF own THEN "fresh" ELSE "stale", TRUE) >>
                  ELSE << >>)
                 \o << IO("ctl", "r", IF own THEN "fresh" ELSE "stale", FALSE) >>
    /\ tlsState' = [tlsState EXCEPT !["ctl"] = HandshakeDone("ctl")]
    /\ deadline' = [deadline EXCEPT !["ctl"].r = IF own THEN "rw" ELSE "caller"]
    /\ UNCHANGED << sessionVars, pureVars, listenVars, twoVars, fileVars, ctlLayers >>

\* transferCmd: the address command, the transfer command, and a new data
\* socket, dialed or accepted, inside a TLS wrapper when there is a policy.
IOTransferCmd ==
    /\ tlsState["ctl"] \in { "raw", "done" }
    /\ tlsState["data"] \in { "none", "closed" }
    /\ lastIO' = SendCmdIO \o SendCmdIO
    /\ tlsState' = [tlsState EXCEPT !["data"] = IF tlsConfig THEN "pending" ELSE "raw"]
    /\ deadline' = [deadline EXCEPT !["ctl"] = [r |-> "rw", w |-> "rw"],
                                    !["data"] = [r |-> "none", w |-> "none"]]
    /\ UNCHANGED << sessionVars, pureVars, listenVars, twoVars, fileVars, ctlLayers >>

\* FtpDataConn.Read and FtpDataConn.Write: the deadline of the direction,
\* then the I/O.
IOData(dir) ==
    /\ tlsState["data"] \in { "raw", "pending", "done" }
    /\ lastIO' = Handshake("data", dir) \o << IO("data", dir, "fresh", FALSE) >>
    /\ tlsState' = [tlsState EXCEPT !["data"] = HandshakeDone("data")]
    /\ deadline' = [deadline EXCEPT !["data"][dir] = "rw"]
    /\ UNCHANGED << sessionVars, pureVars, listenVars, twoVars, fileVars, ctlLayers >>

\* FtpDataConn.Close: the close of the data socket, which writes the alert
\* on a TLS connection whose handshake is done, then getResponse(226).
IODataClose ==
    /\ tlsState["ctl"] \in { "raw", "pending", "done" }
    /\ tlsState["data"] \in { "raw", "pending", "done" }
    /\ lastIO' = CloseIO("data", tlsState["data"]) \o GetResponseIO(tlsState["ctl"])
    /\ tlsState' = [tlsState EXCEPT !["data"] = "closed", !["ctl"] = HandshakeDone("ctl")]
    /\ deadline' = [deadline EXCEPT !["ctl"].r = "rw",
                                    !["data"].w = IF tlsState["data"] = "done" THEN "tls" ELSE @]
    /\ UNCHANGED << sessionVars, pureVars, listenVars, twoVars, fileVars, ctlLayers >>

\* Quit: SendCmd(QUIT), then the close of the control connection.  Close
\* on a TLS wrapper writes its alert, the handshake being done once QUIT
\* has gone through it, and closes what it is around: every wrapper
\* around the socket writes an alert of its own, the outermost first.
IOQuit ==
    /\ tlsState["ctl"] \in { "raw", "pending", "done" }
    /\ lastIO' = SendCmdIO \o CloseLayersIO("ctl", ctlLayers)
    /\ tlsState' = [tlsState EXCEPT !["ctl"] = "closed"]
    /\ deadline' = [deadline EXCEPT
                       !["ctl"] = [r |-> "rw",
                                   w |-> IF HandshakeDone("ctl") = "done" THEN "tls" ELSE "rw"]]
    /\ UNCHANGED << sessionVars, pureVars, listenVars, twoVars, fileVars, ctlLayers >>

InitIO ==
    /\ SessionInit
    /\ ListenIdle
    /\ IOIdle
    /\ TwoIdle
    /\ FileIdle
    /\ pin = << >>
    /\ pout = NoOut

NextIO ==
    \/ \E timed \in BOOLEAN : IODialTimeout(timed)
    \/ IOLoginAuth
    \/ IOSendCmd
    \/ \E own \in BOOLEAN : IOGetResponse(own)
    \/ IOTransferCmd
    \/ \E dir \in { "r", "w" } : IOData(dir)
    \/ IODataClose
    \/ IOQuit
    \/ \E config \in BOOLEAN : WithTLSConfig(config)
    \/ \E implicit \in BOOLEAN : WithTLSImplicit(implicit)

SpecIO == InitIO /\ [][NextIO]_vars

\* ------------------------------------------------- two Sessions at once
\* The server-to-server transfer: the source is told PASV and RETR, the
\* destination PORT and STOR, and then each waits for its final reply, the
\* two waits on two threads.  Here each Session has a thread of its own for
\* the whole of its calls, and the steps of the two interleave freely.

\* The control socket and reader a Session does its I/O on: its own fields
\* conn and textprotoConn.
ConnOfSource(s) == "source"

ConnOf(s) == s

\* The calls of a Session: the command written and the codes accepted.
Calls(s) ==
    IF s = "source"
    THEN << [verb |-> "PASV", ok |-> { EnteringPassive }],
            [verb |-> "RETR", ok |-> { DataConnectionAlreadyOpen, FileStatusOK }],
            [verb |-> "", ok |-> { ClosingDataConnection }] >>
    ELSE << [verb |-> "PORT", ok |-> { CommandOkay }],
            [verb |-> "STOR", ok |-> { DataConnectionAlreadyOpen, FileStatusOK }],
            [verb |-> "", ok |-> { ClosingDataConnection }] >>

\* The codes a server answers with.
TwoCodes ==
    { EnteringPassive, CommandOkay, FileStatusOK, ClosingDataConnection, ActionPending }

\* Where the thread goes after a reply: the next call, or out at an error.
AfterReply(s, call, code) ==
    IF code \notin Calls(s)[call].ok THEN At(call, "failed")
    ELSE IF call = Len(Calls(s)) THEN At(call, "done")
    ELSE IF Calls(s)[call + 1].verb = "" THEN At(call + 1, "deadline")
    ELSE At(call + 1, "put")

\* putCmd, first half: the write deadline on the Session's socket.
TwoPut(s) ==
    /\ thread[s].step = "put"
    /\ socket' = [socket EXCEPT ![ConnOf(s)].wdl = s]
    /\ thread' = [thread EXCEPT ![s] = At(thread[s].op, "cmd")]
    /\ UNCHANGED << sessionVars, pureVars, listenVars, ioVars, fileVars, seen, patterns, parserTable >>

\* putCmd, second half: the write of the command, which blocks while the
\* other thread runs.
TwoCmd(s) ==
    LET call == thread[s].op
    IN  /\ thread[s].step = "cmd"
        /\ socket' = [socket EXCEPT
                         ![ConnOf(s)].rcvd = Append(@, [by |-> s, cmd |-> Calls(s)[call].verb])]
        /\ seen' = [seen EXCEPT ![s] = Append(@, Calls(s)[call].verb)]
        /\ thread' = [thread EXCEPT ![s] = At(call, "get")]
        /\ UNCHANGED << sessionVars, pureVars, listenVars, ioVars, fileVars, patterns, parserTable >>

\* getResponse, first half: the read deadline on the Session's socket.
TwoGet(s) ==
    /\ thread[s].step = "get"
    /\ socket' = [socket EXCEPT ![ConnOf(s)].rdl = s]
    /\ thread' = [thread EXCEPT ![s] = At(thread[s].op, "reply")]
    /\ UNCHANGED << sessionVars, pureVars, listenVars, ioVars, fileVars, seen, patterns, parserTable >>

\* getResponse, second half: the read of the reply; Pasv then decodes it
\* with the package's pattern, which it reads.
TwoReply(s, code) ==
    LET call == thread[s].op
    IN  /\ thread[s].step = "reply"
        /\ socket' = [socket EXCEPT ![ConnOf(s)].taken = Append(@, [by |-> s, code |-> code])]
        /\ seen' = [seen EXCEPT ![s] = Append(@, code)]
        /\ thread' = [thread EXCEPT ![s] = AfterReply(s, call, code)]
        /\ UNCHANGED << sessionVars, pureVars, listenVars, ioVars, fileVars, patterns, parserTable >>

\* GetResponse, first half: the read deadline on the Session's socket.
TwoDeadline(s) ==
    /\ thread[s].step = "deadline"
    /\ socket' = [socket EXCEPT ![ConnOf(s)].rdl = s]
    /\ thread' = [thread EXCEPT ![s] = At(thread[s].op, "read")]
    /\ UNCHANGED << sessionVars, pureVars, listenVars, ioVars, fileVars, seen, patterns, parserTable >>

\* GetResponse, second half: the read of the final reply.
TwoRead(s, code) ==
    LET call == thread[s].op
    IN  /\ thread[s].step = "read"
        /\ socket' = [socket EXCEPT ![ConnOf(s)].taken = Append(@, [by |-> s, code |-> code])]
        /\ seen' = [seen EXCEPT ![s] = Append(@, code)]
        /\ thread' = [thread EXCEPT ![s] = AfterReply(s, call, code)]
        /\ UNCHANGED << sessionVars, pureVars, listenVars, ioVars, fileVars, patterns, parserTable >>

InitTwo ==
    /\ SessionInit
    /\ SideIdle
    /\ pin = << >>
    /\ pout = NoOut

NextTwo ==
    \/ \E s \in Sessions : TwoPut(s)
    \/ \E s \in Sessions : TwoCmd(s)
    \/ \E s \in Sessions : TwoGet(s)
    \/ \E s \in Sessions, code \in TwoCodes : TwoReply(s, code)
    \/ \E s \in Sessions : TwoDeadline(s)
    \/ \E s \in Sessions, code \in TwoCodes : TwoRead(s, code)

SpecTwo == InitTwo /\ [][NextTwo]_vars

\* ------------------------------------------- RetrFile and StorFile
\* The two methods statement by statement: the request for the data
\* connection, the local file, the copy loop, and the deferred calls, which
\* run last in first out at every return.  What the request does on the
\* control channel is in TransferPasv, TransferPort and TransferCmd.

\* The most chunks a copy loop moves.
MaxChunks == 2

FileMethods == { "RetrFile", "StorFile" }

\* A method that defers nothing for the data connection.
DeferCloseForgotten(defers) == defers

\* defer reader.Close() / defer writer.Close(), right after the request.
DeferClose(defers) == Append(defers, "conn.Close")

\* A return statement: the result is fixed and the deferred calls run.
FileReturns(result) == [fcall EXCEPT !.ret = result, !.pc = "defers"]

\* StorFile: os.Open(local); on failure it returns before any request.
FileOpen(ok) ==
    /\ fcall.op = "StorFile"
    /\ fcall.pc = "start"
    /\ fcall' = IF ok
               THEN [fcall EXCEPT !.pc = "request", !.defers = Append(@, "file.Close")]
               ELSE FileReturns("open")
    /\ UNCHANGED << sessionVars, pureVars, listenVars, ioVars, twoVars >>

\* RetrRequest / StorRequest: a data connection, or an error returned.
FileRequest(ok) ==
    /\ \/ fcall.op = "RetrFile" /\ fcall.pc = "start"
       \/ fcall.op = "StorFile" /\ fcall.pc = "request"
    /\ fcall' = IF ok
               THEN [fcall EXCEPT !.pc = IF fcall.op = "RetrFile" THEN "create" ELSE "copy",
                                 !.data = "open",
                                 !.defers = DeferClose(@)]
               ELSE FileReturns("request")
    /\ UNCHANGED << sessionVars, pureVars, listenVars, ioVars, twoVars >>

\* RetrFile: os.Create(local), after the request.
FileCreate(ok) ==
    /\ fcall.op = "RetrFile"
    /\ fcall.pc = "create"
    /\ fcall' = IF ok
               THEN [fcall EXCEPT !.pc = "copy", !.defers = Append(@, "file.Close")]
               ELSE FileReturns("create")
    /\ UNCHANGED << sessionVars, pureVars, listenVars, ioVars, twoVars >>

\* One round of the copy loop: a chunk moved, the end of the data, a read
\* error, a write error, or a short write.
CopyRounds == { "chunk", "eof", "read", "write", "short" }
FileCopy(round) ==
    /\ fcall.pc = "copy"
    /\ round = "chunk" => fcall.chunks < MaxChunks
    /\ fcall' = IF round = "chunk" THEN [fcall EXCEPT !.chunks = @ + 1]
               ELSE IF round = "eof" THEN FileReturns("nil")
               ELSE FileReturns(round)
    /\ UNCHANGED << sessionVars, pureVars, listenVars, ioVars, twoVars >>

\* The deferred call on top runs: file.Close, or the Close of the data
\* connection, which closes the socket and reads the final reply; what it
\* returns is dropped.  With no deferred call left the method has returned.
FileDefer(closeok, o) ==
    LET top == fcall.defers[Len(fcall.defers)]
        r == getResponse(FinalExpect, o, FALSE)
    IN  /\ fcall.pc = "defers"
        /\ fcall' =
              IF fcall.defers = << >> THEN [fcall EXCEPT !.pc = "done"]
              ELSE IF top = "file.Close"
              THEN [fcall EXCEPT !.defers = SubSeq(@, 1, Len(@) - 1),
                                !.trace = Append(@, Ev("fclose", "", 0, FALSE))]
              ELSE [fcall EXCEPT !.defers = SubSeq(@, 1, Len(@) - 1),
                                !.data = "closed",
                                !.trace = @ \o << Ev(IF closeok THEN "dclose" ELSE "dclosefail",
                                                     "", 0, FALSE) >> \o r.ev]
        /\ UNCHANGED << sessionVars, pureVars, listenVars, ioVars, twoVars >>

InitFile ==
    /\ SessionInit
    /\ ListenIdle
    /\ IOIdle
    /\ TwoIdle
    /\ pin = << >>
    /\ pout = NoOut
    /\ ~tlsConfig /\ ~tlsImplicit /\ ipv4
    /\ fcall \in { FileCall(m) : m \in FileMethods }

NextFile ==
    \/ \E ok \in BOOLEAN : FileOpen(ok)
    \/ \E ok \in BOOLEAN : FileRequest(ok)
    \/ \E ok \in BOOLEAN : FileCreate(ok)
    \/ \E round \in CopyRounds : FileCopy(round)
    \/ \E closeok \in BOOLEAN, o \in ReadOutcomes : FileDefer(closeok, o)

SpecFile == InitFile /\ [][NextFile]_vars

\* ====================================================== properties
\* A listing over a TLS data connection that the peer closed before any TLS
\* record: the method returns nil and the handshake has not run.
NilWithoutHandshake ==
    /\ pc = "done"
    /\ op \in { "Nlst", "List", "Dir", "RetrFile" }
    /\ ret = Nil
    /\ data.st = "closed" /\ data.tls # "raw"
    /\ ~data.hs

\* Helpers over the trace of the call in progress.
IsWrite(ev) == ev.e \in { "W", "Wfail" }
IsRead(ev) == ev.e \in { "R", "Rfail" }
\* Places of the trace where a command of S was issued (written, or tried).
Issued(S) == { i \in DOMAIN wire : IsWrite(wire[i]) /\ wire[i].verb \in S }
\* The command at place i was written and the reply read after it has `code`.
Answered(i, code) ==
    /\ wire[i].e = "W"
    /\ i < Len(wire)
    /\ wire[i + 1].e = "R"
    /\ wire[i + 1].code = code
PassiveVerbs == { "PASV", "EPSV" }
ActiveVerbs == { "PORT", "EPRT" }
NegotiationReply(verb) ==
    CASE verb = "PASV" -> EnteringPassive
      [] verb = "EPSV" -> EnteringExtendedPassive
      [] OTHER -> CommandOkay

\* The methods that run transferCmd.
TransferCalls == TransferOps \cup FileOps

\* The negotiation of the call in progress, as its trace shows it: at most
\* one address command, of the family of the mode (PASV or EPSV when
\* passive, PORT or EPRT when active), and the transfer command written only
\* after that command was written and its reply (227, 229 or 200) read.
NegotiationInOrder ==
    /\ Cardinality(Issued(PassiveVerbs \cup ActiveVerbs)) <= 1
    /\ \A i \in Issued(PassiveVerbs \cup ActiveVerbs) :
          wire[i].verb \in (IF passive THEN PassiveVerbs ELSE ActiveVerbs)
    /\ Cardinality(Issued(TransferVerbs)) <= 1
    /\ \A j \in Issued(TransferVerbs) :
          \E i \in Issued(PassiveVerbs \cup ActiveVerbs) :
             i + 1 < j /\ Answered(i, NegotiationReply(wire[i].verb))

\* The call in progress has run transferCmd: it is one of the ten transfer
\* methods, and not a StorFile that returned at os.Open.
RanTransferCmd == op \in TransferCalls /\ wire[1].e # "openfail"

\* C1 as the specification words it: every call that runs transferCmd
\* issues exactly one address command, of the family of its mode, and the
\* transfer command comes only after that command was answered.
C1_Original ==
    RanTransferCmd =>
        /\ Cardinality(Issued(PassiveVerbs \cup ActiveVerbs)) = 1
        /\ NegotiationInOrder

\* C1: every call that runs transferCmd, from any of the ten transfer
\* methods, issues exactly one address command, of the family of its mode
\* and never one of each, and writes the transfer command only after that
\* command was written and answered; the one exception is the call in
\* active mode whose listener cannot be created, which writes no command at
\* all, neither an address command nor a transfer command, and returns the
\* error of the listener.  A StorFile that fails at os.Open does not run
\* transferCmd and writes no command either.
C1_Negotiation ==
    /\ RanTransferCmd =>
          /\ NegotiationInOrder
          /\ IF wire[1].e = "listenfail"
             THEN /\ ~passive
                  /\ Len(wire) = 1
                  /\ pc = "done"
                  /\ ret = Result("listener", 0, NoMsg)
                  /\ data.st # "open"
             ELSE Cardinality(Issued(PassiveVerbs \cup ActiveVerbs)) = 1
    /\ (op \in TransferCalls /\ wire[1].e = "openfail") =>
          /\ op = "StorFile"
          /\ Len(wire) = 1
          /\ ret = Result("open", 0, NoMsg)

\* A request in active mode that returned a data connection.
C1_Witness ==
    /\ pc = "done"
    /\ op \in TransferOps
    /\ ~passive
    /\ data.st = "open"
    /\ Cardinality(Issued(ActiveVerbs)) = 1
    /\ Cardinality(Issued(TransferVerbs)) = 1

\* A file method in passive mode that ran to its end.
NegotiationOfFileMethod ==
    /\ pc = "done"
    /\ op \in FileOps
    /\ passive
    /\ ret = Nil
    /\ Cardinality(Issued(PassiveVerbs)) = 1
    /\ Cardinality(Issued(TransferVerbs)) = 1

\* A call in active mode whose listener could not be created.
NoListenerNoCommand ==
    /\ pc = "done"
    /\ op \in TransferCalls
    /\ wire = << Ev("listenfail", "", 0, FALSE) >>

\* C2: the final reply of an accepted transfer is read once, by Close, after
\* the close of the data socket: transferCmd reads nothing after the reply
\* to the transfer command, no final reply has been read while the data
\* connection is open, and Close is the close of the socket followed by one
\* read.
C2_FinalReply ==
    /\ op \in TransferOps =>
          \A j \in Issued(TransferVerbs) :
              Cardinality({ k \in DOMAIN wire : k > j /\ IsRead(wire[k]) }) <= 1
    /\ data.st = "open" => finalReads = 0
    /\ op = "Close" =>
          /\ Len(wire) = 2
          /\ wire[1].e \in { "dclose", "dclosefail" }
          /\ IsRead(wire[2])
          /\ finalReads = 1
          /\ data.st = "closed"

\* Close has read the final reply of a transfer.
C2_Witness ==
    /\ pc = "done"
    /\ op = "Close"
    /\ finalReads = 1
    /\ wire[2].e = "R"
    /\ wire[2].code = ClosingDataConnection
    /\ ret = Nil

\* C3, as stated: no command is written while the reply to the command
\* written before it is unread.
C3_Original == ~wroteUnread

\* C3, amended: SendCmd writes one command and then makes one read of a
\* reply; a reply is left unread, and a command written after it, only when
\* that read failed.
C3_OneReplyPerCommand ==
    /\ \A i \in DOMAIN wire :
          wire[i].e = "W" =>
              /\ i < Len(wire)
              /\ IsRead(wire[i + 1])
              /\ i + 2 <= Len(wire) => ~IsRead(wire[i + 2])
    /\ unread => broken
    /\ wroteUnread => broken

\* QUIT written after an exchange whose reply could not be read.
C3_Witness ==
    /\ pc = "done"
    /\ op = "Quit"
    /\ wroteUnread
    /\ wire[1].e = "W"
    /\ wire[1].verb = "QUIT"

\* C4: a transfer request returns a data connection only when the reply to
\* the transfer command is 125 or 150; on another reply it returns no
\* connection and an error made of the code and the message of that reply.
C4_TransferReply ==
    (op \in TransferOps /\ pc = "done") =>
        LET xfer == { j \in Issued(TransferVerbs) : wire[j].e = "W" /\ wire[j + 1].e = "R" }
        IN  /\ data.st = "open" <=> ret = Nil
            /\ data.st = "open" =>
                  \E j \in xfer :
                      wire[j + 1].code \in { DataConnectionAlreadyOpen, FileStatusOK }
            /\ \A j \in xfer :
                  wire[j + 1].code \notin { DataConnectionAlreadyOpen, FileStatusOK } =>
                      /\ data.st # "open"
                      /\ ret = Result("protocol", wire[j + 1].code, wire[j + 1].msg)

\* A transfer command answered 550.
C4_Witness ==
    /\ pc = "done"
    /\ op \in TransferOps
    /\ ret.kind = "protocol"
    /\ ret.code = 550
    /\ Issued(TransferVerbs) # {}
    /\ data.st # "open"

\* C5: Login writes PASS only right after USER was answered 331; it
\* succeeds exactly when PASS was answered 230; on another reply to USER it
\* writes no PASS and returns the message of that reply.
C5_Login ==
    op = "Login" =>
        LET users == Issued({ "USER" })
            passes == Issued({ "PASS" })
        IN  /\ Cardinality(users) <= 1
            /\ Cardinality(passes) <= 1
            /\ \A j \in passes :
                  /\ j > 2
                  /\ wire[j - 2].verb = "USER"
                  /\ Answered(j - 2, UserNameOK)
            /\ pc = "done" =>
                  (ret = Nil <=>
                      \E j \in passes : j + 1 = Len(wire) /\ Answered(j, UserLoggedIn))
            /\ \A i \in users :
                  (wire[i].e = "W" /\ wire[i + 1].e = "R" /\ wire[i + 1].code # UserNameOK) =>
                      /\ passes = {}
                      /\ pc = "done"
                      /\ Len(wire) = i + 1
                      /\ ret = Result("message", 0, wire[i + 1].msg)

\* USER answered 230: Login has failed without PASS.
C5_Witness ==
    /\ pc = "done"
    /\ op = "Login"
    /\ ret.kind = "message"
    /\ wire[Len(wire)].e = "R"
    /\ wire[Len(wire)].code = UserLoggedIn
    /\ Issued({ "PASS" }) = {}

\* C6: with a TLS policy that is not implicit, Login is AUTH TLS (234), the
\* TLS client wrapper around the control connection, PBSZ 0 (200), PROT P
\* (200), in this order and before USER; a step that fails is the last one,
\* and its error is returned.
C6_ExplicitTLS ==
    (op = "Login" /\ tlsConfig /\ ~tlsImplicit) =>
        LET Step(i, verb, code) == wire[i].verb = verb /\ Answered(i, code)
            Failed(i) ==
                /\ i <= Len(wire)
                /\ \/ wire[i].e \in { "Wfail", "Rfail" }
                   \/ wire[i].e = "R" /\ wire[i].code # (IF i = 2 THEN AuthOkay ELSE CommandOkay)
        IN  /\ IsWrite(wire[1]) /\ wire[1].verb = "AUTH"
            /\ \A i \in DOMAIN wire :
                  /\ wire[i].e = "wrap" =>
                        i = 3 /\ Step(1, "AUTH", AuthOkay) /\ ctlTLS
                  /\ (IsWrite(wire[i]) /\ wire[i].verb = "PBSZ") =>
                        i = 4 /\ wire[3].e = "wrap" /\ wire[i].tls
                  /\ (IsWrite(wire[i]) /\ wire[i].verb = "PROT") =>
                        i = 6 /\ Step(4, "PBSZ", CommandOkay) /\ wire[i].tls
                  /\ (IsWrite(wire[i]) /\ wire[i].verb = "USER") =>
                        i = 8 /\ Step(6, "PROT", CommandOkay) /\ wire[i].tls
            /\ \A i \in 1..7 :
                  Failed(i) =>
                      /\ pc = "done"
                      /\ Len(wire) = i
                      /\ ret = IF wire[i].e = "R"
                               THEN Result("protocol", wire[i].code, wire[i].msg)
                               ELSE Result("transport", 0, NoMsg)

\* A Login that went through the upgrade and succeeded.
C6_Witness ==
    /\ pc = "done"
    /\ op = "Login"
    /\ tlsConfig /\ ~tlsImplicit
    /\ ret = Nil
    /\ Len(wire) = 11

\* C7: the run and its twin, which differ in the password given to Login
\* only, hand the same messages to the logger; the PASS command of Login is
\* logged as "PASS ***" and no command Login logs carries a password.
C7_PasswordNotLogged ==
    /\ log = logTwin
    /\ op = "Login" =>
          /\ \A i \in DOMAIN log :
                /\ log[i].arg \notin Passwords
                /\ (log[i].k = "cmd" /\ log[i].verb = "PASS") => log[i] = LogCmd("PASS", "***")
          /\ Issued({ "PASS" }) # {} => \E i \in DOMAIN log : log[i] = LogCmd("PASS", "***")

\* PASS was written and logged.
C7_Witness ==
    /\ op = "Login"
    /\ pc = "done"
    /\ \E i \in DOMAIN wire : wire[i].e = "W" /\ wire[i].verb = "PASS"
    /\ \E i \in DOMAIN log : log[i].verb = "PASS"

\* C8, as stated: after the upgrade a data connection is wrapped (client in
\* passive mode, server in active mode), without a TLS policy it is raw, and
\* it is wrapped only when the control connection is under TLS.
C8_Original ==
    data.st = "open" =>
        /\ (tlsConfig /\ ctlTLS) => data.tls = (IF passive THEN "client" ELSE "server")
        /\ ~tlsConfig => data.tls = "raw"
        /\ data.tls # "raw" => ctlTLS

\* C8, amended: the data connection transferCmd returns is wrapped (client
\* in passive mode, server in active mode) exactly when the Session has a
\* TLS policy at that call, whether or not the control connection is under
\* TLS; so it is wrapped after the upgrade while the policy is set, and raw
\* without a policy.
C8_DataTLS ==
    /\ (pc \in { "done", "tf_body" } /\ op \in TransferOps \cup FileOps /\ data.st = "open") =>
          data.tls = (IF tlsConfig THEN (IF passive THEN "client" ELSE "server") ELSE "raw")
    /\ sock.st = "open" => sock.tls = (IF tlsConfig THEN "client" ELSE "raw")

\* A wrapped data connection of a Session whose control connection is plain.
C8_Witness ==
    /\ pc = "done"
    /\ op \in TransferOps \cup FileOps
    /\ data.st = "open"
    /\ data.tls # "raw"
    /\ ~ctlTLS

\* A raw data connection of a Session whose control connection is under
\* TLS: the policy was taken away after the upgrade.
RawDataUnderTLS ==
    /\ pc = "done"
    /\ op \in TransferOps \cup FileOps
    /\ ret = Nil
    /\ data.st = "open"
    /\ data.tls = "raw"
    /\ ctlTLS
    /\ ~tlsConfig

\* C9: DialTimeout writes nothing; it succeeds exactly when the dial
\* succeeded and the first reply read is 220; it returns the error of the
\* dial, or the error made of the code and message of another greeting.
C9_Dial ==
    op = "DialTimeout" =>
        /\ \A i \in DOMAIN wire : ~IsWrite(wire[i])
        /\ ret = Nil <=>
              /\ Len(wire) = 2
              /\ wire[1].e = "dial"
              /\ wire[2].e = "R"
              /\ wire[2].code = ServiceReadyForNewUser
        /\ wire[1].e = "dialfail" =>
              /\ Len(wire) = 1
              /\ ret = Result("dial", 0, NoMsg)
              /\ ctl = "none"
        /\ (wire[1].e = "dial" /\ wire[2].e = "R" /\ wire[2].code # ServiceReadyForNewUser) =>
              ret = Result("protocol", wire[2].code, wire[2].msg)

\* A greeting that is not 220.
C9_Witness ==
    /\ pc = "done"
    /\ op = "DialTimeout"
    /\ wire[1].e = "dial"
    /\ wire[2].e = "R"
    /\ wire[2].code = 530
    /\ ret.kind = "protocol"

\* C10: Quit ends with the close of the control connection whatever became
\* of QUIT, and returns the result of that close and nothing else.
C10_Quit ==
    op = "Quit" =>
        /\ ctl = "closed"
        /\ Cardinality({ i \in DOMAIN wire : wire[i].e \in { "cclose", "cclosefail" } }) = 1
        /\ wire[Len(wire)].e \in { "cclose", "cclosefail" }
        /\ ret = IF wire[Len(wire)].e = "cclose" THEN Nil ELSE Result("close", 0, NoMsg)

\* QUIT could not be written; the connection was closed and Quit returned nil.
C10_Witness ==
    /\ pc = "done"
    /\ op = "Quit"
    /\ wire[1].e = "Wfail"
    /\ wire[2].e = "cclose"
    /\ ctl = "closed"
    /\ ret = Nil


\* The accepted codes of each command, as the table of commands has them.
AcceptedCodes(verb) ==
    CASE verb \in { "CWD", "CDUP", "RNTO", "RMD" } -> { 250 }
      [] verb \in { "RNFR", "REST" } -> { 350 }
      [] verb \in { "TYPE", "NOOP", "OPTS", "PBSZ", "PROT", "PORT", "EPRT" } -> { 200 }
      [] verb = "AUTH" -> { 234 }
      [] verb \in { "PWD", "MKD" } -> { 257 }
      [] verb = "SIZE" -> { 213 }
      [] verb = "SYST" -> { 215 }
      [] verb = "FEAT" -> { 211 }
      [] verb = "REIN" -> { 220 }
      [] verb = "PASV" -> { 227 }
      [] verb = "EPSV" -> { 229 }
      [] verb = "DELE" -> { 250, 200 }
      [] verb = "ABOR" -> { 225, 226 }
      [] OTHER -> { }
TableOps == SimpleVerbs \cup { "Rename" }
\* The command whose reply ends the method.
FinalVerb(o) == IF o = "Rename" THEN "RNTO" ELSE o
QuoteCount(msg) == Cardinality({ i \in 1..Len(msg) : IsSep(msg[i], QUOTE) })
\* The message of an accepted reply is one the method can decode.
Decodes(verb, msg) ==
    CASE verb \in { "PWD", "MKD" } -> QuoteCount(msg) >= 2
      [] verb = "SIZE" ->
            \E i \in 1..Len(msg) :
               /\ IsNum(msg[i])
               /\ \A j \in 1..Len(msg) :
                     \/ j = i
                     \/ msg[j].c \in SpaceRunes
                     \/ j = i - 1 /\ msg[j].c \in { "+", "-" }
      [] verb = "PASV" -> msg = MsgPasv
      [] verb = "EPSV" -> msg = MsgEpsv
      [] OTHER -> TRUE
\* The method has returned after a reply to its last command was read.
Replied == pc = "done" /\ Len(wire) >= 2 /\ wire[Len(wire)].e = "R"

\* C11, as stated: a command method succeeds exactly when the code of the
\* reply is in the accepted set of its command, and returns the code and the
\* message of any other reply.
C11_Original ==
    (op \in TableOps /\ Replied) =>
        LET n == Len(wire)
            accepted == wire[n].code \in AcceptedCodes(wire[n - 1].verb)
        IN  /\ ret = Nil <=> (accepted /\ wire[n - 1].verb = FinalVerb(op))
            /\ ~accepted => ret = Result("protocol", wire[n].code, wire[n].msg)

\* C11, amended: a command method succeeds exactly when the code of the
\* reply is in the accepted set and, for PWD, MKD, SIZE, PASV and EPSV, the
\* message decodes; a reply outside the set is returned with its code and
\* message; an accepted reply whose message does not decode is an error of
\* the decoder, and a panic for a 257 message with exactly one quote.
C11_CodeTable ==
    (op \in TableOps /\ Replied) =>
        LET n == Len(wire)
            verb == wire[n - 1].verb
            accepted == wire[n].code \in AcceptedCodes(verb)
        IN  /\ ret = Nil <=>
                  (accepted /\ verb = FinalVerb(op) /\ Decodes(verb, wire[n].msg))
            /\ ~accepted => ret = Result("protocol", wire[n].code, wire[n].msg)
            /\ (accepted /\ ~Decodes(verb, wire[n].msg)) =>
                  ret = IF QuoteCount(wire[n].msg) = 1 /\ verb \in { "PWD", "MKD" }
                        THEN Result("panic", 0, NoMsg)
                        ELSE Result("parse", 0, wire[n].msg)

\* PWD answered 257 with a message without quotes: an error, not a path.
C11_Witness ==
    /\ pc = "done"
    /\ op = "PWD"
    /\ Len(wire) = 2
    /\ wire[2].e = "R"
    /\ wire[2].code = 257
    /\ wire[2].msg = MsgText
    /\ ret.kind = "parse"

\* A login, navigation or transfer method has returned an error that is not
\* a transport error of the control socket.
FailedSoftly ==
    /\ pc = "done"
    /\ op \in { "Login" } \cup TableOps \cup TransferOps
    /\ ret.kind \notin { "nil", "transport" }

\* C12, the clause on the control channel: after a login, navigation or
\* transfer method failed for a reason other than a transport error, the
\* control connection is open and no reply is left unread on it.
C12_NoPendingReply ==
    FailedSoftly => (ctl = "open" /\ ~unread /\ ~finalOwed)

\* C13, as stated: when the close of the data socket failed and the read of
\* the final reply failed too, Close returns the error of the close of the
\* socket.
C13_CloseErrorFirst ==
    (pc = "done" /\ op = "Close" /\ wire[1].e = "dclosefail"
        /\ (wire[2].e = "Rfail" \/ wire[2].code # 226)) =>
        ret = Result("dataclose", 0, NoMsg)

\* C13, amended: when the close of the data socket failed, Close returns the
\* failure of the final reply if there is one (a failed read, or a reply
\* that is not 226), and the error of the close only when the reply is 226.
C13_ReplyErrorFirst ==
    (pc = "done" /\ op = "Close" /\ wire[1].e = "dclosefail") =>
        ret = IF wire[2].e = "Rfail" THEN Result("transport", 0, NoMsg)
              ELSE IF wire[2].code # 226 THEN Result("protocol", wire[2].code, wire[2].msg)
              ELSE Result("dataclose", 0, NoMsg)

\* Both failed: the close of the socket and the read of the final reply.
C13_Witness ==
    /\ pc = "done"
    /\ op = "Close"
    /\ wire[1].e = "dclosefail"
    /\ wire[2].e = "Rfail"
    /\ ret.kind = "transport"

\* C14: Close closes the data socket and then reads one reply, whether the
\* close succeeded or not; after a close that succeeded it returns nil
\* exactly when the reply is 226, the error of the read when the read
\* failed, and the code and message of any other reply.
C14_Close ==
    op = "Close" =>
        /\ Len(wire) = 2
        /\ wire[1].e \in { "dclose", "dclosefail" }
        /\ IsRead(wire[2])
        /\ wire[1].e = "dclose" =>
              /\ ret = Nil <=> (wire[2].e = "R" /\ wire[2].code = 226)
              /\ wire[2].e = "Rfail" => ret = Result("transport", 0, NoMsg)
              /\ (wire[2].e = "R" /\ wire[2].code # 226) =>
                    ret = Result("protocol", wire[2].code, wire[2].msg)

\* The data socket closed, the final reply is 225: Close returns that reply.
C14_Witness ==
    /\ pc = "done"
    /\ op = "Close"
    /\ wire[1].e = "dclose"
    /\ wire[2].e = "R"
    /\ wire[2].code = 225
    /\ ret = Result("protocol", 225, wire[2].msg)

\* The final reply of the transfer run by the method failed: its read
\* failed, or its code is not 226.
FinalReplyFailed ==
    \E i \in DOMAIN wire :
        /\ wire[i].e \in { "dclose", "dclosefail" }
        /\ i < Len(wire)
        /\ (wire[i + 1].e = "Rfail" \/ (wire[i + 1].e = "R" /\ wire[i + 1].code # 226))

\* C15: when the final reply of a transfer run by Nlst, List, Dir, RetrFile
\* or StorFile is not 226 or cannot be read, the method returns a failure.
C15_FinalReplyReported ==
    (pc = "done" /\ op \in FileOps /\ FinalReplyFailed) => ret # Nil

\* Six decimal numbers separated by commas start at place i of msg.
SixNumbersAt(msg, i) ==
    /\ i + 10 <= Len(msg)
    /\ \A k \in 0..10 :
          IF k % 2 = 0 THEN IsNum(msg[i + k]) ELSE msg[i + k] = Sep(",")

PayloadNumbers(msg) == << msg[3].n, msg[5].n, msg[7].n, msg[9].n, msg[11].n, msg[13].n >>

IsPayload227(msg) ==
    /\ Len(msg) = 15
    /\ \A k \in 1..6 : PayloadNumbers(msg)[k] \in 0..255
    /\ LET n == PayloadNumbers(msg)
       IN  msg = Payload227(n[1], n[2], n[3], n[4], n[5], n[6])

\* C16: applied to the text of a PASV reply whose payload is the six numbers
\* (h1,h2,h3,h4,p1,p2), each in 0..255, parse227 returns the host h1.h2.h3.h4
\* and the port p1 * 256 + p2 and no error; applied to a message that has no
\* six decimal numbers separated by commas, it returns an error.
C16_Parse227 ==
    pout.fn = "parse227" =>
        /\ IsPayload227(pin) =>
              /\ pout.r.ok
              /\ pout.r.host = SubSeq(PayloadNumbers(pin), 1, 4)
              /\ pout.r.port = PayloadNumbers(pin)[5] * 256 + PayloadNumbers(pin)[6]
        /\ (\A i \in 1..Len(pin) : ~SixNumbersAt(pin, i)) => ~pout.r.ok

C16_Witness ==
    /\ pout.fn = "parse227"
    /\ pin = Payload227(10, 0, 0, 1, 255, 255)
    /\ pout.r.port = 65535

C16_WitnessError ==
    /\ pout.fn = "parse227"
    /\ pin = MsgText
    /\ ~pout.r.ok

\* The places of the double quotes of msg.
QuotesOf(msg) == { i \in 1..Len(msg) : msg[i] = Sep(QUOTE) }

\* C17: parse257 returns the text strictly between the first and the last
\* double quote of the message, and for every message with fewer than two
\* double quotes (none, or exactly one) it returns an error, not a path and
\* not a crash.
C17_Parse257 ==
    pout.fn = "parse257" =>
        IF Cardinality(QuotesOf(pin)) >= 2
        THEN LET first == CHOOSE i \in QuotesOf(pin) : \A j \in QuotesOf(pin) : i <= j
                 last == CHOOSE i \in QuotesOf(pin) : \A j \in QuotesOf(pin) : j <= i
             IN  /\ pout.r.kind = "ok"
                 /\ pout.r.path = SubSeq(pin, first + 1, last - 1)
        ELSE pout.r.kind = "error"

\* What parse257 does with one double quote: neither a path nor an error.
C17_OneQuotePanics ==
    /\ pout.fn = "parse257"
    /\ Cardinality(QuotesOf(pin)) = 1
    /\ pout.r.kind = "panic"

\* C19: parse tries the Unix parser, then the DOS parser.  A result of the
\* Unix parser that is not "unrecognized format", an entry or a hard error,
\* is returned as it is and the DOS parser is not tried; the DOS parser runs
\* only after the Unix parser reported "unrecognized format", and its result
\* is returned, "unrecognized format" included.
C19_ParseOrder ==
    pout.fn = "parse" =>
        LET u == parseUnixFormat(pin, pout.year)
            d == parseDosFormat(pin)
        IN  /\ pout.r.calls[1] = "parseUnixFormat"
            /\ u.kind \in { "entry", "error" } =>
                  /\ Returned(pout.r) = u
                  /\ pout.r.calls = << "parseUnixFormat" >>
            /\ (\E k \in 1..Len(pout.r.calls) : pout.r.calls[k] = "parseDosFormat")
                  <=> u.kind = "unknown"
            /\ u.kind = "unknown" /\ d.kind \in { "entry", "unknown" } =>
                  /\ Returned(pout.r) = d
                  /\ pout.r.calls = << "parseUnixFormat", "parseDosFormat" >>

\* A hard error of the Unix parser on a line the DOS parser would accept.
C19_Witness ==
    /\ pout.fn = "parse"
    /\ parseUnixFormat(pin, pout.year).kind = "error"
    /\ parseDosFormat(pin).kind = "entry"
    /\ pout.r.kind = "error"

C19_WitnessDos ==
    /\ pout.fn = "parse"
    /\ parseUnixFormat(pin, pout.year).kind = "unknown"
    /\ pout.r.kind = "entry"
    /\ pout.r.info.type = "d"

C19_WitnessBoth ==
    /\ pout.fn = "parse"
    /\ Len(pin) >= DosStampLen
    /\ pout.r.kind = "unknown"

\* The line starts with a time stamp of one of the two DOS layouts.
HasDosStamp(line) ==
    /\ Len(line) >= DosStampLen
    /\ parseDosDateTime(SubSeq(line, 1, DosStampLen)).ok

\* C20: for every line with fewer than 9 fields that does not start with a
\* valid DOS time stamp of 17 characters, the empty line and every line
\* shorter than 17 characters included, parse returns "unrecognized format".
C20_ShortLinesUnknown ==
    (pout.fn = "parse" /\ Len(Fields(pin)) < UnixFields /\ ~HasDosStamp(pin))
        => pout.r.kind = "unknown"

\* What parse does with such a line shorter than the stamp.
C20_ShortLinePanics ==
    /\ pout.fn = "parse"
    /\ pin = TotalLine
    /\ pout.r.kind = "panic"

\* The part of C20 the code keeps: lines of 17 characters or more.
C20_LongLinesUnknown ==
    (pout.fn = "parse" /\ Len(Fields(pin)) < UnixFields /\ ~HasDosStamp(pin)
        /\ Len(pin) >= DosStampLen)
        => pout.r.kind = "unknown"

\* The entries of the lines parse accepts, in the order of the lines, each
\* line parsed in the year of the clock at its call.
RECURSIVE AcceptedEntries(_, _)
AcceptedEntries(lines, years) ==
    IF lines = << >> THEN << >>
    ELSE (IF parse(lines[1], years[1]).kind = "entry"
          THEN << parse(lines[1], years[1]).info >> ELSE << >>)
         \o AcceptedEntries(Tail(lines), Tail(years))

\* C18: Dir, given a listing it reads to the end, terminates and returns, in
\* the order of the listing, exactly one entry for every line the parser
\* accepts; every line the parser does not recognise, the empty line and a
\* short line such as "total 12" included, is omitted and never makes Dir
\* fail or abort.
C18_DirOmitsUnrecognised ==
    (pout.fn = "Dir" /\ pout.readok) =>
        /\ pout.r.kind = "ok"
        /\ pout.r.infos = AcceptedEntries(pin, pout.years)

\* What Dir does with a "total" line before an entry.
C18_TotalLineAborts ==
    /\ pout.fn = "Dir"
    /\ pout.readok
    /\ Len(pin) = 2 /\ pin[1] = TotalLine
    /\ parse(pin[2], pout.years[2]).kind = "entry"
    /\ pout.r.kind = "panic"

\* The part of C18 the code keeps: a listing all of whose lines are 17
\* characters or longer, with a full mode field where there are 9 fields.
C18_LongLinesOmitted ==
    (pout.fn = "Dir" /\ pout.readok
        /\ \A k \in 1..Len(pin) : parse(pin[k], pout.years[k]).kind # "panic")
        => /\ pout.r.kind = "ok"
           /\ pout.r.infos = AcceptedEntries(pin, pout.years)

\* A listing of the same line twice, read across the new year: the line
\* dated Feb 29 is no entry in 2023 and is one in 2024.
DirAcrossNewYear ==
    /\ pout.fn = "Dir"
    /\ pout.readok
    /\ Len(pin) = 2 /\ pin[1] = pin[2]
    /\ pout.years = << 2023, 2024 >>
    /\ pout.r.kind = "ok"
    /\ Len(pout.r.infos) = 1

C21_WitnessLeap ==
    /\ pout.fn = "parse2"
    /\ pout.first.kind = "error"
    /\ pout.second.kind = "entry"

\* How the address negotiation of the call failed, as the trace shows it:
\* the error transferCmd has to return, Nil when the negotiation has not
\* failed.
NegotiationError ==
    LET neg == Issued(PassiveVerbs \cup ActiveVerbs)
        i == CHOOSE k \in neg : TRUE
    IN  IF wire # << >> /\ wire[1].e = "listenfail" THEN Result("listener", 0, NoMsg)
        ELSE IF \E k \in DOMAIN wire : wire[k].e = "ddialfail" THEN Result("dial", 0, NoMsg)
        ELSE IF neg = {} THEN Nil
        ELSE IF wire[i].e = "Wfail" THEN Result("transport", 0, NoMsg)
        ELSE IF Len(wire) = i THEN Nil
        ELSE IF wire[i + 1].e = "Rfail" THEN Result("transport", 0, NoMsg)
        ELSE IF wire[i + 1].code # NegotiationReply(wire[i].verb)
        THEN Result("protocol", wire[i + 1].code, wire[i + 1].msg)
        ELSE IF ~Decodes(wire[i].verb, wire[i + 1].msg)
        THEN Result("parse", 0, wire[i + 1].msg)
        ELSE Nil

\* C24: when the address negotiation of transferCmd fails (PASV or EPSV not
\* answered 227 or 229 or not decodable, the passive dial fails, the listener
\* cannot be created, PORT or EPRT not answered 200), transferCmd returns
\* that error and no connection, the transfer command is never written, and
\* no command is written twice.
C24_NegotiationFailure ==
    (op \in TransferCalls /\ NegotiationError # Nil) =>
        /\ pc = "done"
        /\ ret = NegotiationError
        /\ data.st # "open"
        /\ Issued(TransferVerbs) = {}
        /\ \A i, j \in DOMAIN wire :
              (IsWrite(wire[i]) /\ IsWrite(wire[j]) /\ wire[i].verb = wire[j].verb) => i = j

\* EPSV answered 229 with a message that has no port.
C24_Witness ==
    /\ pc = "done"
    /\ op \in TransferCalls
    /\ Len(wire) = 2
    /\ wire[1].verb = "EPSV"
    /\ wire[2].e = "R" /\ wire[2].code = EnteringExtendedPassive
    /\ ret.kind = "parse"

C24_WitnessDial ==
    /\ pc = "done"
    /\ op \in TransferCalls
    /\ ret.kind = "dial"

C24_WitnessPort ==
    /\ pc = "done"
    /\ op \in TransferCalls
    /\ Len(wire) = 3
    /\ wire[2].verb = "PORT"
    /\ ret = Result("protocol", 550, MsgText)

\* C25: on a Session configured for implicit TLS, or without a TLS policy,
\* Login writes none of AUTH, PBSZ and PROT and does not wrap the control
\* connection again: the first command it writes is USER, on the connection
\* as it was before the call.
C25_NoUpgrade ==
    (op = "Login" /\ (~tlsConfig \/ tlsImplicit)) =>
        /\ Issued({ "AUTH", "PBSZ", "PROT" }) = {}
        /\ \A i \in DOMAIN wire : wire[i].e # "wrap" /\ wire[i].tls = ctlTLS
        /\ IsWrite(wire[1])
        /\ wire[1].verb = "USER"
        /\ hs # "pending"

\* A Login over implicit TLS that succeeded.
C25_Witness ==
    /\ pc = "done"
    /\ op = "Login"
    /\ tlsConfig /\ tlsImplicit
    /\ ret = Nil
    /\ Len(wire) = 4
    /\ wire[1].verb = "USER" /\ wire[1].tls
    /\ wire[3].verb = "PASS"

\* A Login of a Session set to implicit TLS after a plain dial: USER and
\* PASS are written in clear.
LoginImplicitInClear ==
    /\ pc = "done"
    /\ op = "Login"
    /\ tlsConfig /\ tlsImplicit
    /\ ~ctlTLS
    /\ Len(wire) = 4
    /\ wire[1].verb = "USER" /\ ~wire[1].tls
    /\ wire[3].verb = "PASS" /\ ~wire[3].tls

\* C26: in active mode with a TLS policy, the connection transferCmd returns
\* is the accepted connection wrapped as a TLS server, and the handshake of
\* the wrapper has completed before transferCmd returns it.
C26_HandshakeBeforeReturn ==
    (pc = "done" /\ op \in TransferOps /\ ~passive /\ tlsConfig /\ ret = Nil) =>
        /\ data.st = "open"
        /\ data.tls = "server"
        /\ data.hs

\* What transferCmd returns there: the wrapper, its handshake not run.
C26_WrappedOnly ==
    /\ pc = "done"
    /\ op \in TransferOps
    /\ ~passive /\ tlsConfig
    /\ ret = Nil
    /\ data.st = "open" /\ data.tls = "server"
    /\ ~data.hs

\* Places of the trace where Accept was called on the listener.
Accepts == { k \in DOMAIN wire : wire[k].e \in { "accept", "acceptfail" } }

\* C27: in active mode, once PORT or EPRT was answered 200, Accept is called
\* on the listener at most once, and only after the transfer command was
\* answered 125 or 150; the listener is closed when transferCmd has
\* returned, whether the transfer command failed, Accept failed or Accept
\* succeeded.
C27_AcceptOnce ==
    (op \in TransferCalls /\ ~passive
        /\ \E i \in Issued(ActiveVerbs) : Answered(i, CommandOkay)) =>
        /\ Cardinality(Accepts) <= 1
        /\ \A k \in Accepts :
              \E j \in Issued(TransferVerbs) :
                  /\ j + 1 < k
                  /\ \/ Answered(j, DataConnectionAlreadyOpen)
                     \/ Answered(j, FileStatusOK)
        /\ pc \in { "done", "tf_body" } => lst = "closed"

\* Accept failed after RETR was answered 150: the listener is closed.
C27_Witness ==
    /\ pc = "done"
    /\ op \in TransferCalls
    /\ ~passive
    /\ \E k \in Accepts : wire[k].e = "acceptfail"
    /\ lst = "closed"
    /\ ret.kind = "accept"

C27_WitnessRejected ==
    /\ pc = "done"
    /\ op \in TransferCalls
    /\ ~passive
    /\ Accepts = {}
    /\ ret = Result("protocol", 550, MsgText)
    /\ Issued(TransferVerbs) # {}
    /\ lst = "closed"

\* The data connection of the call: the one dialed, before and after
\* transferCmd has returned it.
Dialed == IF sock.st = "open" THEN sock ELSE data

\* C28: in passive mode, when the host of the control peer is IPv4 the
\* Session sends PASV and dials the host and the port of the 227 reply;
\* otherwise it sends EPSV and dials the host of the control peer with the
\* port of the 229 reply; it never sends both for one transfer.
C28_PassiveAddress ==
    (op \in TransferCalls /\ passive) =>
        /\ Cardinality(Issued(PassiveVerbs)) <= 1
        /\ Issued(ActiveVerbs) = {}
        /\ \A i \in Issued(PassiveVerbs) : wire[i].verb = (IF ipv4 THEN "PASV" ELSE "EPSV")
        /\ \A k \in DOMAIN wire :
              wire[k].e = "ddial" =>
                  /\ k = 3
                  /\ Dialed.st # "none"
                  /\ IF ipv4
                     THEN /\ Answered(1, EnteringPassive) /\ wire[2].msg = MsgPasv
                          /\ Dialed.host = << 10, 0, 0, 1 >>
                          /\ Dialed.port = 7 * 256 + 138
                     ELSE /\ Answered(1, EnteringExtendedPassive) /\ wire[2].msg = MsgEpsv
                          /\ Dialed.host = PeerHost
                          /\ Dialed.port = 51000

\* A passive transfer to a peer that is not IPv4, dialed at the EPSV port.
C28_Witness ==
    /\ pc = "done"
    /\ op \in TransferCalls
    /\ passive /\ ~ipv4
    /\ Len(wire) >= 3 /\ wire[3].e = "ddial"
    /\ data.st = "open"
    /\ data.port = 51000

C28_WitnessPasv ==
    /\ pc = "done"
    /\ op \in TransferCalls
    /\ passive /\ ipv4
    /\ data.st = "open"
    /\ data.host = << 10, 0, 0, 1 >>

\* C29: the listener's address is announced with "PORT h1,h2,h3,h4,p1,p2",
\* p1 = port / 256 and p2 = port mod 256, both in 0..255, when the local
\* host of the control connection is IPv4, and with "EPRT |2|host|port|"
\* otherwise; in both cases makePort succeeds only when the reply is 200.
C29_PortCommand ==
    pout.fn = "makePort" =>
        /\ IF pin.v4
           THEN /\ pout.cmd.verb = "PORT"
                /\ Len(pout.cmd.arg) = 6
                /\ SubSeq(pout.cmd.arg, 1, 4) = pin.host
                /\ pout.cmd.arg[5] \in 0..255
                /\ pout.cmd.arg[6] \in 0..255
                /\ pout.cmd.arg[5] * 256 + pout.cmd.arg[6] = pin.port
           ELSE pout.cmd = Command("EPRT", << 2, pin.host, pin.port >>)
        /\ pout.ev[1].verb = pout.cmd.verb
        /\ pout.err = Nil <=>
              (Len(pout.ev) = 2 /\ pout.ev[2].e = "R" /\ pout.ev[2].code = CommandOkay)

\* PORT for the port 65280 = 255 * 256 + 0, answered 200.
C29_Witness ==
    /\ pout.fn = "makePort"
    /\ pin.v4 /\ pin.port = 65280
    /\ pout.cmd.arg[5] = 255 /\ pout.cmd.arg[6] = 0
    /\ pout.err = Nil

C29_WitnessEprt ==
    /\ pout.fn = "makePort"
    /\ ~pin.v4
    /\ pout.cmd.verb = "EPRT"
    /\ pout.err.kind = "protocol"

\* Port called with any int: the two numbers are those of Go's division,
\* p1 * 256 + p2 = port with p2 of the sign of the port, and they are
\* bytes exactly for the ports 0..65535.
PortAnyInt ==
    pout.fn = "Port" =>
        LET p1 == pout.cmd.arg[Len(pout.cmd.arg) - 1]
            p2 == pout.cmd.arg[Len(pout.cmd.arg)]
        IN  /\ p1 * 256 + p2 = pin.port
            /\ p2 \in (0 - 255)..255
            /\ pin.port < 0 => (p1 <= 0 /\ p2 <= 0)
            /\ (p1 \in 0..255 /\ p2 \in 0..255) <=> pin.port \in 0..65535

\* Port("127.0.0.1", -1) writes "PORT 127,0,0,1,0,-1".
PortMinusOne ==
    /\ pout.fn = "Port"
    /\ pin.port = 0 - 1
    /\ pout.cmd.arg = << 127, 0, 0, 1, 0, 0 - 1 >>

\* Port(host, -257) ends with -1,-1.
PortMinus257 ==
    /\ pout.fn = "Port"
    /\ pin.port = 0 - 257
    /\ SubSeq(pout.cmd.arg, Len(pout.cmd.arg) - 1, Len(pout.cmd.arg)) = << 0 - 1, 0 - 1 >>

\* Port("256.0.0.1", 1024) writes "PORT 256,0,0,1,4,0": the host is split
\* at its dots whether it is an address or not.
PortOfAnyDottedHost ==
    /\ pout.fn = "Port"
    /\ ~pin.v4
    /\ pout.cmd.arg = << 256, 0, 0, 1, 4, 0 >>

\* Port("1.2.3", 1024) writes "PORT 1,2,3,4,0", five numbers.
PortOfThreePieces ==
    /\ pout.fn = "Port"
    /\ pout.cmd.arg = << 1, 2, 3, 4, 0 >>

\* Port of an IPv6 host writes the host as one piece before the two numbers.
PortOfColonHost ==
    /\ pout.fn = "Port"
    /\ pin.sep = ":"
    /\ Len(pout.cmd.arg) = 3
    /\ pout.cmd.arg[1] = pin.host

\* Eprt("256.0.0.1", port) announces the family 2.
EprtOfAnyDottedHost ==
    /\ pout.fn = "Eprt"
    /\ pin.sep = "." /\ ~pin.v4
    /\ pout.cmd.arg[1] = 2

\* What holds in every state of makePort: one send at most, made when the
\* goroutine has ended; makePort holds the value that was sent; with nil it
\* has returned the listener error and written nothing.
ListenOnce ==
    /\ sends <= 1
    /\ task = "end" <=> sends = 1
    /\ mkPc \in { "announce", "done" } => (sends = 1 /\ mkListener = taskListener)
    /\ mkPc = "announce" => mkListener = "open"
    /\ (mkPc = "done" /\ mkListener = "nil") =>
          (pout.err = Result("listener", 0, NoMsg) /\ pout.ev = << >>)

\* C30: the goroutine of startListen sends one value on its channel, a
\* listener or nil when the listen call fails, and ends; makePort receives
\* that value; neither of them waits forever; with nil makePort returns
\* "Unable to create listener" and writes neither PORT nor EPRT.
C30_ListenTask == [](ListenOnce) /\ <>(task = "end" /\ mkPc = "done")

\* The listen call failed: makePort has returned the error.
C30_Witness ==
    /\ task = "end"
    /\ mkPc = "done"
    /\ sends = 1
    /\ mkListener = "nil"
    /\ pout.err.kind = "listener"

\* C22: every read and every write on the control socket and on a data
\* connection, the I/O of a TLS handshake included, runs under a deadline of
\* now + readWriteTimeout set for that very I/O right before it; none runs
\* without a deadline or under a deadline set for an earlier I/O.
C22_FreshDeadlines ==
    \A k \in DOMAIN lastIO : lastIO[k].under = "fresh"

\* The handshake of the upgraded control connection ran in the write of a
\* command: its reads ran under the read deadline set for an earlier reply.
C22_HandshakeStaleRead ==
    /\ Len(lastIO) = 4
    /\ lastIO[2] = IO("ctl", "r", "stale", TRUE)
    /\ lastIO[3] = IO("ctl", "w", "fresh", FALSE)

\* The handshake of a data connection ran in its first Read: its writes ran
\* with no deadline at all.
C22_DataHandshakeNoDeadline ==
    /\ Len(lastIO) = 3
    /\ lastIO[1] = IO("data", "w", "none", TRUE)
    /\ lastIO[3] = IO("data", "r", "fresh", FALSE)

\* The part of C22 the code keeps: outside a TLS handshake and the alert
\* of a close, the I/O of putCmd, getResponse, Read and Write runs under a
\* deadline of now + readWriteTimeout set right before it.
C22_PlainIOFresh ==
    \A k \in DOMAIN lastIO :
        lastIO[k].hs \/ lastIO[k].alert \/ lastIO[k].under = "fresh"
        \/ (lastIO[k].conn = "ctl" /\ lastIO[k].dir = "r" /\ deadline["ctl"].r = "caller")

\* Close of a TLS data connection after a Read: the alert on the data
\* socket, then the read of the final reply on the control socket.
CloseWritesAlert ==
    /\ tlsState["data"] = "closed"
    /\ lastIO = << CloseNotify("data"), IO("ctl", "r", "fresh", FALSE) >>

\* Quit on a TLS control connection ends with the alert.
QuitWritesAlert ==
    /\ tlsState["ctl"] = "closed"
    /\ ctlLayers = 1
    /\ Len(lastIO) = 3
    /\ lastIO[3] = CloseNotify("ctl")

\* Quit on a control connection wrapped twice (an implicit dial, then the
\* upgrade of Login) ends with two alerts.
QuitWritesTwoAlerts ==
    /\ tlsState["ctl"] = "closed"
    /\ ctlLayers = 2
    /\ Len(lastIO) = 4
    /\ lastIO[3] = CloseNotify("ctl") /\ lastIO[4] = CloseNotify("ctl")

\* The control socket is raw exactly when no wrapper is around it, and the
\* wrappers are never more than the bound.
LayersOfState ==
    /\ ctlLayers \in 0..MaxLayers
    /\ tlsState["ctl"] \in { "none", "raw" } => ctlLayers = 0
    /\ tlsState["ctl"] \in { "pending", "done" } => ctlLayers >= 1

\* What a Session run alone writes and consumes when its server answers
\* with the codes `codes`: each command followed by its reply, then the
\* final reply, up to the first reply it does not accept.
RECURSIVE AloneFrom(_, _, _)
AloneFrom(s, call, codes) ==
    IF call > Len(Calls(s)) THEN << >>
    ELSE LET cmd == IF Calls(s)[call].verb = "" THEN << >> ELSE << Calls(s)[call].verb >>
         IN  IF codes = << >> THEN cmd
             ELSE cmd \o << Head(codes) >> \o
                  (IF Head(codes) \in Calls(s)[call].ok
                   THEN AloneFrom(s, call + 1, Tail(codes)) ELSE << >>)

IsPrefix(a, b) == Len(a) <= Len(b) /\ SubSeq(b, 1, Len(a)) = a

CodesTaken(k) == [i \in 1..Len(socket[k].taken) |-> socket[k].taken[i].code]

\* C23: two Sessions, each with its own control connection, driven by two
\* threads in any interleaving, never write or read each other's control
\* socket or fields: each Session's commands and replies are those of its
\* run alone, and the shared patterns for 227 and 229 are never modified.
C23_SessionsApart ==
    /\ \A k \in Sessions :
        /\ \A i \in 1..Len(socket[k].rcvd) : socket[k].rcvd[i].by = k
        /\ \A i \in 1..Len(socket[k].taken) : socket[k].taken[i].by = k
        /\ socket[k].wdl \in { "none", k }
        /\ socket[k].rdl \in { "none", k }
    /\ \A s \in Sessions :
        /\ IsPrefix(seen[s], AloneFrom(s, 1, CodesTaken(s)))
        /\ Len(seen[s]) = Len(socket[s].rcvd) + Len(socket[s].taken)
    /\ patterns = Compiled

\* Both threads wait for their final reply at once, each after its two
\* commands.
C23_Witness ==
    /\ \A s \in Sessions : thread[s] = At(3, "read")
    /\ Len(seen["source"]) = 4
    /\ Len(seen["destination"]) = 4

\* Both Sessions have consumed their final reply, the destination first.
C23_WitnessDone ==
    /\ \A s \in Sessions : thread[s] = At(3, "done")
    /\ seen["destination"] = << "PORT", CommandOkay, "STOR", FileStatusOK, ClosingDataConnection >>
    /\ seen["source"] = << "PASV", EnteringPassive, "RETR", FileStatusOK, ClosingDataConnection >>

\* The source has set its write deadline and not yet written its first
\* command, while the destination has written and read.
TwoBetweenDeadlineAndWrite ==
    /\ socket["source"].wdl = "source"
    /\ socket["source"].rcvd = << >>
    /\ Len(seen["destination"]) >= 2

\* C31: the goroutine sets the deadline of the listener before it hands the
\* listener to makePort: in every interleaving the listener makePort holds,
\* announces with PORT or EPRT and returns for the transfer command and
\* Accept has its deadline; makePort never holds a listener without one.
C31_DeadlineBeforeHandOff ==
    /\ mkListener \in { "unset", "nil", "open" }
    /\ task = "send" => taskListener \in { "nil", "open" }
    /\ (pout.fn = "makePort" /\ pout.ev # << >>) => mkListener = "open"

\* makePort has announced a listener and returned it, the goroutine ended.
C31_Witness ==
    /\ mkPc = "done"
    /\ task = "end"
    /\ mkListener = "open"
    /\ pout.fn = "makePort"
    /\ pout.err = Nil
    /\ Len(pout.ev) = 2

\* makePort waits at the receive while the listener has no deadline yet.
C31_WitnessWaiting ==
    /\ mkPc = "recv"
    /\ task = "deadline"
    /\ taskListener = "bare"
    /\ mkListener = "unset"

\* The line has the fields of a Unix line, and its size field or its date
\* fields do not parse in the year of the call.
NineFields(line) == Len(Fields(line)) >= UnixFields
SizeOrDateFails(line, thisYear) ==
    \/ ~ParseUint(Fields(line)[5], 0).ok
    \/ ~parseDateTime(SubSeq(Fields(line), 6, 8), thisYear).ok

\* C32: for a line of at least 9 fields, a size (field 4) or a date (fields
\* 5 to 7) that does not parse makes parse return that hard error, not
\* "unknown format", and the DOS parser is not tried on the line.
C32_HardError ==
    (pout.fn = "parse" /\ NineFields(pin) /\ SizeOrDateFails(pin, pout.year)) =>
        /\ pout.r.kind = "error"
        /\ pout.r.calls = << "parseUnixFormat" >>

\* A line of nine fields with a mode field of four characters and a size
\* that is no number: parse did not return, the index went out of range.
C32_ShortModePanics ==
    /\ pin = UnixLine(<< "d", "r", "w", "x" >>, << "1", "2", "a", "4" >>, << "J", "a", "n" >>,
                      << "1" >>, << "2", "0", "2", "3" >>, << << "a", ".", "t", "x", "t" >> >>)
    /\ pout.fn = "parse"
    /\ pout.r.kind = "panic"

\* The part of C32 the code keeps: with a first field of ten characters or
\* more, a size or a date that does not parse is a hard error of parse and
\* the DOS parser is not called.
C32_HardErrorLongMode ==
    (/\ pout.fn = "parse"
     /\ NineFields(pin)
     /\ Len(Fields(pin)[1]) >= 10
     /\ SizeOrDateFails(pin, pout.year)) =>
        /\ pout.r.kind = "error"
        /\ pout.r.calls = << "parseUnixFormat" >>

\* A line with a date that does not parse got the hard error.
C32_WitnessDate ==
    /\ pout.fn = "parse"
    /\ NineFields(pin)
    /\ Len(Fields(pin)[1]) >= 10
    /\ ParseUint(Fields(pin)[5], 0).ok
    /\ ~parseDateTime(SubSeq(Fields(pin), 6, 8), pout.year).ok
    /\ pout.r.kind = "error"

\* parse gave the line to the DOS parser, which could cut its time stamp.
DosParsed ==
    /\ pout.fn = "parse"
    /\ Len(pout.r.calls) = 2
    /\ Len(pin) >= DosStampLen

DosStampOk == parseDosDateTime(SubSeq(pin, 1, DosStampLen)).ok

\* After the time stamp comes a token that is not "<DIR>", ends at a
\* space, and is no unsigned decimal number.
DosSizeFails ==
    LET value == TrimLeft(From(pin, DosStampLen))
        space == Index(value, " ")
    IN  /\ ~HasPrefix(value, DirMark)
        /\ space # 0 - 1
        /\ ~ParseUint(SubSeq(value, 1, space), 10).ok

\* C33: in the DOS parser a line whose first 17 characters parse as a time
\* stamp but whose size token is no unsigned number yields a hard error,
\* distinct from "unknown format", while a line whose time stamp does not
\* parse yields "unknown format".
C33_DosSizeHardError ==
    DosParsed =>
        /\ (DosStampOk /\ DosSizeFails) => pout.r.kind = "error"
        /\ ~DosStampOk => pout.r.kind = "unknown"

\* C33 as the code has it: a size token that is no unsigned number yields
\* "unknown format", the same as a time stamp that does not parse; the DOS
\* parser returns an entry or "unknown format" and no other error.
C33_DosSizeUnknown ==
    DosParsed =>
        /\ (DosStampOk /\ DosSizeFails) => pout.r.kind = "unknown"
        /\ ~DosStampOk => pout.r.kind = "unknown"
        /\ pout.r.kind \in { "entry", "unknown" }

\* A DOS line with a good time stamp and the size 12a4 came back as
\* "unknown format".
C33_Witness ==
    /\ DosParsed
    /\ DosStampOk
    /\ DosSizeFails
    /\ pout.r.kind = "unknown"
    /\ pout.r.calls = << "parseUnixFormat", "parseDosFormat" >>

\* A DOS line with a time stamp that does not parse came back as "unknown
\* format".
C33_WitnessStamp ==
    /\ DosParsed
    /\ ~DosStampOk
    /\ pout.r.kind = "unknown"

\* parse returned an entry for a line of at least 9 fields whose first
\* field has 10 characters.
UnixEntryOfTen ==
    /\ pout.fn = "parse"
    /\ NineFields(pin)
    /\ Len(Fields(pin)[1]) = 10
    /\ pout.r.kind = "entry"

\* The directory flag, the nine permission bits and the name of the entry
\* are those of the fields of the line.
FlagsAndName(info, fields) ==
    /\ info.type = "d" <=> fields[1][1] = "d"
    /\ \A g \in 0..2 :
        /\ (3 * g + 1) \in info.perm <=> fields[1][3 * g + 2] = "r"
        /\ (3 * g + 2) \in info.perm <=> fields[1][3 * g + 3] = "w"
        /\ (3 * g + 3) \in info.perm <=> fields[1][3 * g + 4] \in { "x", "s" }
    /\ info.name = Join(SubSeq(fields, 9, Len(fields)))

\* C34: for a Unix line of at least 9 fields with a first field of 10
\* characters, the entry is a directory exactly when the field starts with
\* d, has each permission bit exactly when its place holds r, w, or x or s,
\* has the unsigned decimal value of field 4 as size, never negative, and
\* has as name the fields from index 8 on joined by single spaces.
C34_UnixEntry ==
    UnixEntryOfTen =>
        /\ FlagsAndName(pout.r.info, Fields(pin))
        /\ pout.r.info.size = NumberIn(Fields(pin)[5], 10).n
        /\ ~IsNegative(pout.r.info.size)

\* The size field 010 came back as the size 8.
C34_OctalSize ==
    /\ UnixEntryOfTen
    /\ Fields(pin)[5] = << "0", "1", "0" >>
    /\ pout.r.info.size = Uint64(8)

\* The size field 9223372036854775808 (2^63) came back as a negative size.
C34_NegativeSize ==
    /\ UnixEntryOfTen
    /\ Fields(pin)[5] = << "9", "2", "2", "3", "3", "7", "2", "0", "3", "6", "8", "5", "4",
                           "7", "7", "5", "8", "0", "8" >>
    /\ IsNegative(pout.r.info.size)

\* The part of C34 the code keeps: flag, permission bits and name as
\* stated, and the decimal value as size when field 4 is made of decimal
\* digits only and does not start with 0 or is 0 itself; the size is not
\* negative when that value is below 2^63.
C34_UnixEntryNoLeadingZero ==
    UnixEntryOfTen =>
        /\ FlagsAndName(pout.r.info, Fields(pin))
        /\ (/\ \A i \in 1..Len(Fields(pin)[5]) : IsDigit(Fields(pin)[5][i])
            /\ (Fields(pin)[5][1] # "0" \/ Len(Fields(pin)[5]) = 1)) =>
               pout.r.info.size = NumberIn(Fields(pin)[5], 10).n
        /\ Len(Fields(pin)[5]) < 19 => ~IsNegative(pout.r.info.size)

\* A set-uid file with a name of two words came back as an entry with the
\* owner's execute bit, not a directory, the name joined.
C34_WitnessSetuid ==
    /\ UnixEntryOfTen
    /\ Fields(pin)[1][4] = "s"
    /\ 3 \in pout.r.info.perm
    /\ pout.r.info.type = "-"
    /\ pout.r.info.size = Uint64(1234)
    /\ pout.r.info.name = << "m", "y", " ", "f", "i", "l", "e" >>

\* C35: Rename writes RNFR first and RNTO only after RNFR was answered
\* 350; after any other reply to RNFR it never writes RNTO and returns that
\* error; it succeeds exactly when RNFR was answered 350 and RNTO 250.
C35_Rename ==
    op = "Rename" =>
        /\ wire # << >> => (IsWrite(wire[1]) /\ wire[1].verb = "RNFR")
        /\ Issued({ "RNFR" }) \subseteq { 1 }
        /\ \A j \in Issued({ "RNTO" }) : j = 3 /\ Answered(1, ActionPending)
        /\ (Len(wire) >= 2 /\ wire[2].e = "R" /\ wire[2].code # ActionPending) =>
              /\ Issued({ "RNTO" }) = {}
              /\ pc = "done"
              /\ ret = Result("protocol", wire[2].code, wire[2].msg)
        /\ pc = "done" =>
              (ret = Nil <=>
                  /\ Len(wire) = 4
                  /\ Answered(1, ActionPending)
                  /\ Answered(3, ActionOK))

\* RNFR was answered 350 and RNTO 250: Rename returned no error.
C35_Witness ==
    /\ op = "Rename"
    /\ pc = "done"
    /\ Len(wire) = 4
    /\ Answered(1, ActionPending)
    /\ Answered(3, ActionOK)
    /\ ret = Nil

\* RNFR was answered 250: Rename returned that reply as its error and
\* wrote nothing more.
C35_WitnessRefused ==
    /\ op = "Rename"
    /\ pc = "done"
    /\ Len(wire) = 2
    /\ wire[2].e = "R"
    /\ wire[2].code = ActionOK
    /\ ret.kind = "protocol"
    /\ ret.code = ActionOK

\* The call in progress did the step `e` (a dial, a listen, a close).
Did(e) == \E i \in DOMAIN wire : wire[i].e = e

\* C36: whenever transferCmd returns an error, every data socket it dialed
\* and every listener it created in that call has been closed: no socket
\* (passive mode, transfer command refused or unanswered) and no listener
\* (active mode, PORT or EPRT refused) stays open after a failed request.
C36_FailureClosesAll ==
    (pc = "done" /\ op \in TransferOps /\ ret # Nil) =>
        /\ Did("ddial") => sock.st # "open"
        /\ Did("listen") => (Did("lclose") /\ lst = "closed")

\* Passive mode: the socket was dialed, the transfer command was refused,
\* the request returned the error, and the socket is open.
C36_SocketLeftOpen ==
    /\ pc = "done"
    /\ op = "RetrRequest"
    /\ passive
    /\ ret.kind = "protocol"
    /\ Did("ddial")
    /\ sock.st = "open"

\* Active mode: the listener was created, PORT or EPRT was refused, the
\* request returned the error, and the listener is open.
C36_ListenerLeftOpen ==
    /\ pc = "done"
    /\ op = "StorRequest"
    /\ ~passive
    /\ ret.kind = "protocol"
    /\ Did("listen")
    /\ ~Did("lclose")
    /\ lst = "open"

\* The part of C36 the code keeps: in active mode, once PORT or EPRT was
\* accepted, every failure of the request closes the listener.
C36_ListenerClosedAfterAnnounce ==
    (/\ pc = "done"
     /\ op \in TransferOps
     /\ ret # Nil
     /\ \E i \in Issued(TransferVerbs) : TRUE) =>
        (Did("listen") => (Did("lclose") /\ lst = "closed"))

\* C37: when DialTimeout fails because the greeting cannot be read or its
\* code is not 220, the control socket it opened is closed before it
\* returns: a failed connect leaves no open connection behind.
C37_FailedDialCloses ==
    (pc = "done" /\ op = "DialTimeout" /\ ret # Nil) => ctl # "open"

\* The greeting had another code than 220: DialTimeout returned it as an
\* error, and the control socket is open.
C37_GreetingRefusedLeftOpen ==
    /\ pc = "done"
    /\ op = "DialTimeout"
    /\ Len(wire) = 2
    /\ wire[1].e = "dial"
    /\ wire[2].e = "R"
    /\ wire[2].code # ServiceReadyForNewUser
    /\ ret.kind = "protocol"
    /\ ctl = "open"

\* The greeting could not be read: DialTimeout returned the error of the
\* read, and the control socket is open.
C37_GreetingUnreadLeftOpen ==
    /\ pc = "done"
    /\ op = "DialTimeout"
    /\ Len(wire) = 2
    /\ wire[2].e = "Rfail"
    /\ ret.kind = "transport"
    /\ ctl = "open"

\* The part of C37 the code keeps: a dial that fails opens no socket.
C37_NoSocketWithoutDial ==
    (pc = "done" /\ op = "DialTimeout" /\ ret.kind = "dial") => ctl = "none"

\* C38: with a TLS policy and implicit TLS off, Login never writes USER or
\* PASS on the plaintext control connection: both go through the TLS
\* wrapper installed after AUTH TLS was answered 234, and when AUTH, the
\* handshake, PBSZ or PROT fails neither of them is written at all.
C38_CredentialsUnderTLS ==
    (op = "Login" /\ tlsConfig /\ ~tlsImplicit) =>
        /\ \A i \in Issued({ "USER", "PASS" }) :
              /\ wire[i].tls
              /\ ctlTLS
              /\ hs = "done"
              /\ i >= 8
              /\ wire[1].verb = "AUTH" /\ Answered(1, AuthOkay)
              /\ wire[3].e = "wrap"
              /\ wire[4].verb = "PBSZ" /\ Answered(4, CommandOkay)
              /\ wire[6].verb = "PROT" /\ Answered(6, CommandOkay)
        /\ (\E i \in Issued({ "AUTH", "PBSZ", "PROT" }) :
                 \/ wire[i].e = "Wfail"
                 \/ i < Len(wire) /\ wire[i + 1].e = "Rfail"
                 \/ i < Len(wire) /\ wire[i + 1].e = "R" /\
                    wire[i + 1].code # (IF wire[i].verb = "AUTH" THEN AuthOkay ELSE CommandOkay))
              => Issued({ "USER", "PASS" }) = {}

\* USER and PASS were written through the wrapper after the upgrade.
C38_Witness ==
    /\ op = "Login"
    /\ tlsConfig /\ ~tlsImplicit
    /\ Len(wire) >= 10
    /\ wire[8].verb = "USER" /\ wire[8].e = "W" /\ wire[8].tls
    /\ wire[10].verb = "PASS" /\ wire[10].e = "W" /\ wire[10].tls

\* The handshake failed in the write of PBSZ: Login returned the error and
\* wrote neither USER nor PASS.
C38_WitnessHandshake ==
    /\ op = "Login"
    /\ pc = "done"
    /\ tlsConfig /\ ~tlsImplicit
    /\ Len(wire) = 4
    /\ wire[4].verb = "PBSZ" /\ wire[4].e = "Wfail"
    /\ hs = "pending"
    /\ ret.kind = "transport"
    /\ Issued({ "USER", "PASS" }) = {}

\* The places of the trace of the method where the data socket was closed,
\* and those where a reply was read from the control channel.
DataCloses == { i \in DOMAIN fcall.trace : fcall.trace[i].e \in { "dclose", "dclosefail" } }
FinalReadsAt == { i \in DOMAIN fcall.trace : IsRead(fcall.trace[i]) }

\* C39: once RetrFile or StorFile has its data connection, the connection
\* is closed and the final reply read exactly once on every return path
\* (end of data, local file not created, read or write error, short
\* write): no final reply is left unread when the method returns.
C39_CloseOnEveryPath ==
    /\ Cardinality(DataCloses) <= 1
    /\ Cardinality(FinalReadsAt) <= 1
    /\ \A i \in FinalReadsAt : i > 1 /\ (i - 1) \in DataCloses
    /\ fcall.data = "open" => (DataCloses = {} /\ fcall.pc # "done")
    /\ (fcall.pc = "done" /\ fcall.data # "none") =>
          /\ fcall.data = "closed"
          /\ Cardinality(DataCloses) = 1
          /\ Cardinality(FinalReadsAt) = 1
    /\ (fcall.pc = "done" /\ fcall.data = "none") => FinalReadsAt = {}

\* RetrFile could not create the local file: it returned that error, the
\* data connection closed and the final reply read.
C39_Witness ==
    /\ fcall.op = "RetrFile"
    /\ fcall.pc = "done"
    /\ fcall.ret = "create"
    /\ fcall.data = "closed"
    /\ Len(fcall.trace) = 2
    /\ fcall.trace[1].e = "dclose"
    /\ fcall.trace[2].e = "R"
    /\ fcall.trace[2].code = ClosingDataConnection

\* StorFile wrote one chunk short after a full one: the local file was
\* closed, then the data connection, and the final reply was read.
C39_WitnessShortWrite ==
    /\ fcall.op = "StorFile"
    /\ fcall.pc = "done"
    /\ fcall.ret = "short"
    /\ fcall.chunks = 1
    /\ Len(fcall.trace) = 3
    /\ fcall.trace[1].e = "dclose"
    /\ fcall.trace[2].e = "R"
    /\ fcall.trace[3].e = "fclose"

\* C40: for every line of at least 9 fields, whatever the length of its
\* first field (a DOS line whose name has several words included), parse
\* returns an entry or an error and never aborts on an index out of range.
C40_NoAbortOnNineFields ==
    (pout.fn = "parse" /\ NineFields(pin)) => pout.r.kind # "panic"

\* A DOS directory line with a name of seven words, ten fields in all and
\* a first field of eight characters: parse aborted in the Unix parser.
C40_DosLongNameAborts ==
    /\ pout.fn = "parse"
    /\ Len(Fields(pin)) = 10
    /\ Fields(pin)[1] = << "0", "1", "-", "1", "5", "-", "2", "3" >>
    /\ Fields(pin)[3] = DirMark
    /\ pout.r.kind = "panic"
    /\ pout.r.calls = << "parseUnixFormat" >>

\* The part of C40 the code keeps: with a first field of ten characters or
\* more, parse returns for every line of at least 9 fields.
C40_NoAbortLongFirstField ==
    (pout.fn = "parse" /\ NineFields(pin) /\ Len(Fields(pin)[1]) >= 10) =>
        pout.r.kind \in { "entry", "error" }
====
